---- MODULE Spec2Model ----
(***************************************************************************)
(* VidSense retrieval core: the document store (videos, transcripts),      *)
(* the feedback / collection store and the request handlers of             *)
(* services/search/app/routes_search.py (search_videos, rag_answer,        *)
(* find_similar_queries, save/delete feedback) together with the ingest    *)
(* and collection handlers that build the store.                           *)
(*                                                                         *)
(* Every handler is one atomic action; it leaves its HTTP response in      *)
(* `resp`.  Text is a sequence of one-character strings so that            *)
(* str.strip() and str.lower() are computed, not assumed.  Scores are      *)
(* exact rationals [num, den]; similarities and distances are scaled by    *)
(* 100.                                                                    *)
(***************************************************************************)
EXTENDS Integers, Sequences, FiniteSets, TLC

VARIABLES videos, transcripts, feedback, collections, resp, sessions, modules

vars == <<videos, transcripts, feedback, collections, resp, sessions, modules>>

(***************************************************************************)
(* Bounds of the model                                                     *)
(***************************************************************************)
\* most feedback records the store holds
MaxFeedback == 2

VideoIds == {"v1", "v2", "v3"}
\* the requests that can be in flight at the same time
Sessions == {"s1", "s2"}
CollectionIds == {"c1"}

QA == <<"a">>
QB == <<"b">>
QBv == <<" ", "B">>
QC == <<"c">>
QBlank == <<" ">>
QAv == <<" ", "A">>
QD == <<"d">>
QE == <<"e">>
QF == <<"f">>
QG == <<"g">>
QH == <<"h">>
QI == <<"i">>
QJ == <<"j">>
QAB == <<"a", " ", "b">>
\* query texts that are stored with feedback records and collections
QueryTexts == {QB, QC}
\* query texts of search / RAG requests
RequestQueries == {QA, QBv, QBlank}
\* k_ann and k_final of RAG requests
KAnnValues == {2, 3}
KFinalValues == {1, 3}
\* the (query text, video) pairs feedback is stored for when similar queries
\* are looked up
SimilarPairs == ({QAv, QB, QD, QE, QF, QG, QH, QI} \X {"v1"}) \cup {<<QD, "v2">>}
FeedbackLabels == {"good", "bad"}
\* the collections that are created and deleted when similar collections are
\* looked up, their query texts and their video_ids lists
DynamicCollectionIds == {"d1", "d2", "d3"}
DynamicCollectionQueries == {QAv, QD, QJ}
VideoIdLists == {<<>>, <<"v2", "v1", "v2">>}
\* the collections saved and backfilled before: one per query text
SavedCollections ==
  {[id |-> "k1", query |-> QB, video_ids |-> <<"v1">>, query_embedding |-> "embedding"],
   [id |-> "k2", query |-> QC, video_ids |-> <<>>, query_embedding |-> "embedding"],
   [id |-> "k3", query |-> QE, video_ids |-> <<"v1", "v2">>, query_embedding |-> "embedding"],
   [id |-> "k4", query |-> QF, video_ids |-> <<"v2">>, query_embedding |-> "embedding"],
   [id |-> "k5", query |-> QG, video_ids |-> <<>>, query_embedding |-> "embedding"],
   [id |-> "k6", query |-> QH, video_ids |-> <<"v3">>, query_embedding |-> "embedding"],
   [id |-> "k7", query |-> QI, video_ids |-> <<"v1">>, query_embedding |-> "embedding"],
   [id |-> "k8", query |-> QAB, video_ids |-> <<"v1">>, query_embedding |-> "embedding"]}
\* a label the feedback endpoint does not accept
InvalidLabels == {"Good"}

(***************************************************************************)
(* Generic helpers                                                         *)
(***************************************************************************)
Range(s) == {s[i] : i \in 1..Len(s)}

Min(a, b) == IF a < b THEN a ELSE b

\* s[:n] of Python
Take(s, n) == SubSeq(s, 1, Min(n, Len(s)))

\* all orders in which the elements of S can be enumerated
Perms(S) == {s \in [1..Cardinality(S) -> S] : \A x \in S : \E i \in 1..Cardinality(S) : s[i] = x}

(***************************************************************************)
(* str.strip().lower()                                                     *)
(***************************************************************************)
Lower(ch) == IF ch = "A" THEN "a" ELSE IF ch = "B" THEN "b" ELSE IF ch = "C" THEN "c" ELSE ch

RECURSIVE LStrip(_)
LStrip(s) == IF s # <<>> /\ Head(s) = " " THEN LStrip(Tail(s)) ELSE s

RECURSIVE RStrip(_)
RStrip(s) == IF s # <<>> /\ s[Len(s)] = " " THEN RStrip(SubSeq(s, 1, Len(s) - 1)) ELSE s

Strip(s) == RStrip(LStrip(s))

StrLower(s) == [i \in 1..Len(s) |-> Lower(s[i])]

Norm(s) == StrLower(Strip(s))

IsBlank(s) == Strip(s) = <<>>

(***************************************************************************)
(* Embedding provider and pgvector distance.  embed_text is a              *)
(* deterministic function of the text; the model is uncased and ignores    *)
(* surrounding whitespace, so the similarity of two texts is a fixed       *)
(* table over their normal forms.                                          *)
(***************************************************************************)
\* 1 - (query_embedding <=> :query_vec), scaled by 100
Similarity(q1, q2) ==
  LET n1 == Norm(q1)
      n2 == Norm(q2)
      pair == {n1, n2}
  IN  IF n1 = n2 THEN 100
      ELSE IF pair = {QA, QB} THEN 90
      ELSE IF pair = {QA, QAB} THEN 97
      ELSE IF pair = {QA, QC} THEN 60
      ELSE IF pair = {QA, QD} THEN 95
      ELSE IF pair = {QA, QE} THEN 93
      ELSE IF pair = {QA, QF} THEN 90
      ELSE IF pair = {QA, QG} THEN 88
      ELSE IF pair = {QA, QH} THEN 86
      ELSE IF pair = {QA, QI} THEN 85
      ELSE IF pair = {QA, QJ} THEN 50
      ELSE 40

\* t.embedding <=> :query_vec, scaled by 100 (no two documents tie)
AnnDistance(q, v) ==
  LET n == Norm(q)
      rank == IF n = QB THEN [v1 |-> 2, v2 |-> 1, v3 |-> 3]
              ELSE IF n = QC THEN [v1 |-> 3, v2 |-> 2, v3 |-> 1]
              ELSE [v1 |-> 1, v2 |-> 2, v3 |-> 3]
  IN  10 * rank[v]

\* ORDER BY t.embedding <=> :query_vec
RECURSIVE AnnOrder(_, _)
AnnOrder(S, q) ==
  IF S = {} THEN <<>>
  ELSE LET m == CHOOSE v \in S : \A w \in S : AnnDistance(q, v) <= AnnDistance(q, w)
       IN  <<m>> \o AnnOrder(S \ {m}, q)

(***************************************************************************)
(* Cross-encoder reranker (backend/app/reranker.py)                        *)
(***************************************************************************)
\* the logits the cross-encoder can give a pair
Logits == {-1, 0, 2}

\* mutation: d goes before the elements of equal score
RECURSIVE InsertDesc_Unstable(_, _)
InsertDesc_Unstable(s, d) ==
  IF s = <<>> THEN <<d>>
  ELSE IF Head(s).rerank_score > d.rerank_score THEN <<Head(s)>> \o InsertDesc_Unstable(Tail(s), d)
  ELSE <<d>> \o s

\* insert d behind every element whose score is >= d's: sorted(..., reverse=True) is stable
RECURSIVE InsertDesc(_, _)
InsertDesc(s, d) ==
  IF s = <<>> THEN <<d>>
  ELSE IF Head(s).rerank_score >= d.rerank_score THEN <<Head(s)>> \o InsertDesc(Tail(s), d)
  ELSE <<d>> \o s

RECURSIVE SortedDesc(_)
SortedDesc(s) ==
  IF s = <<>> THEN <<>>
  ELSE InsertDesc(SortedDesc(SubSeq(s, 1, Len(s) - 1)), s[Len(s)])

\* the logit the cross-encoder gives the pair (query, document of v): a fixed
\* function of the pair; for "a" it reverses part of the ANN order and ties
\* two documents, for the other queries all documents tie
CrossEncoderLogit(q, v) ==
  IF Norm(q) = QA THEN [v1 |-> 0, v2 |-> 1, v3 |-> 1][v] ELSE 0

\* the logits of the documents docs for the query
CrossEncoderScores(query, docs) == [i \in 1..Len(docs) |-> CrossEncoderLogit(query, docs[i])]

\* mutation: the fallback returns what the normal path returns
rerank_NoFallback(docs, scores, model_ok) ==
  IF docs = <<>> THEN <<>>
  ELSE SortedDesc([i \in 1..Len(docs) |-> [video_id |-> docs[i], rerank_score |-> scores[i]]])

\* docs: sequence of video ids in ANN order, without rerank_score; scores: the
\* logits the model computes for them; model_ok = FALSE: loading the model or
\* scoring raised (lines 91-116), and the except branch of lines 141-148 runs
rerank(docs, scores, model_ok) ==
  IF docs = <<>> THEN <<>>
  ELSE IF model_ok
       THEN SortedDesc([i \in 1..Len(docs) |-> [video_id |-> docs[i], rerank_score |-> scores[i]]])
       ELSE [i \in 1..Len(docs) |-> [video_id |-> docs[i], rerank_score |-> 0]]

(***************************************************************************)
(* search_videos                                                           *)
(***************************************************************************)
\* math.exp(s), scaled by 1000
Exp(s) == IF s = -1 THEN 368 ELSE IF s = 0 THEN 1000 ELSE IF s = 1 THEN 2718 ELSE 7389

RECURSIVE SumExp(_)
SumExp(ranked) ==
  IF ranked = <<>> THEN 0 ELSE Exp(Head(ranked).rerank_score) + SumExp(Tail(ranked))

\* exp(score) / sum(exp(all_scores)) over the whole reranked batch
Softmax(ranked) ==
  [i \in 1..Len(ranked) |->
     [video_id |-> ranked[i].video_id,
      score |-> [num |-> Exp(ranked[i].rerank_score), den |-> SumExp(ranked)]]]

\* the rows of the ANN query of lines 114-143
AnnResult(query, k_ann) ==
  Take(AnnOrder({v \in videos : transcripts[v] = "embedded"}, query), k_ann)

\* mutation: the batch is cut to k before the softmax
search_videos_SoftmaxAfterCut(query, k, k_ann, model_ok) ==
  IF IsBlank(query) THEN [hits |-> <<>>, total |-> 0]
  ELSE LET result == AnnResult(query, k_ann)
           ranked_docs == rerank(result, CrossEncoderScores(query, result), model_ok)
       IN  [hits |-> Softmax(Take(ranked_docs, k)), total |-> Len(result)]

search_videos(query, k, k_ann, model_ok) ==
  IF IsBlank(query) THEN [hits |-> <<>>, total |-> 0]
  ELSE LET result == AnnResult(query, k_ann)
           ranked_docs == rerank(result, CrossEncoderScores(query, result), model_ok)
       IN  [hits |-> Take(Softmax(ranked_docs), k), total |-> Len(result)]

(***************************************************************************)
(* find_similar_queries                                                    *)
(***************************************************************************)
\* LIMIT 5 of the similar-queries SQL
SimilarQueriesLimit == 5
\* similarity > 0.85, scaled by 100
SimilarQueriesThreshold == 85

\* ORDER BY similarity DESC: the orders of S with the most similar text first,
\* texts of equal similarity in any order
RECURSIVE OrdersBySimilarity(_, _)
OrdersBySimilarity(S, query) ==
  IF S = {} THEN {<<>>}
  ELSE LET top == {q \in S : \A r \in S : Similarity(q, query) >= Similarity(r, query)}
       IN  UNION {{<<q>> \o rest : rest \in OrdersBySimilarity(S \ {q}, query)} : q \in top}

\* mutation: the threshold is not strict
MatchingQueries_NotStrict(query) ==
  {q \in {f.query : f \in feedback} : Similarity(q, query) >= SimilarQueriesThreshold}

\* SELECT DISTINCT query ... WHERE similarity > 0.85
MatchingQueries(query) ==
  {q \in {f.query : f \in feedback} : Similarity(q, query) > SimilarQueriesThreshold}

\* the results the SQL may return: the DISTINCT stored query texts above the
\* threshold, most similar first, cut at the LIMIT
SimilarQueryRows(query) ==
  {Take(s, SimilarQueriesLimit) : s \in OrdersBySimilarity(MatchingQueries(query), query)}

\* mutation: the good and the bad video ids change places
SimilarQuery_LabelsSwapped(query_text, query) ==
  [query |-> query_text,
   similarity |-> Similarity(query_text, query),
   good_video_ids |-> {f.video_id : f \in {g \in feedback : g.query = query_text /\ g.feedback = "bad"}},
   bad_video_ids |-> {f.video_id : f \in {g \in feedback : g.query = query_text /\ g.feedback = "good"}}]

SimilarQuery(query_text, query) ==
  [query |-> query_text,
   similarity |-> Similarity(query_text, query),
   good_video_ids |-> {f.video_id : f \in {g \in feedback : g.query = query_text /\ g.feedback = "good"}},
   bad_video_ids |-> {f.video_id : f \in {g \in feedback : g.query = query_text /\ g.feedback = "bad"}}]

\* mutation: the stored text and the query are compared as they are
SameQuery_Exact(query_text, query) == query_text = query

\* line 860: query_text.strip().lower() == payload.query.strip().lower()
SameQuery(query_text, query) == Norm(query_text) = Norm(query)

RECURSIVE SimilarQueriesOf(_, _)
SimilarQueriesOf(rows, query) ==
  IF rows = <<>> THEN <<>>
  ELSE (IF SameQuery(Head(rows), query) THEN <<>> ELSE <<SimilarQuery(Head(rows), query)>>)
       \o SimilarQueriesOf(Tail(rows), query)

\* rows: the result of the SQL, one of SimilarQueryRows(query)
find_similar_queries(query, rows) ==
  IF IsBlank(query) THEN <<>> ELSE SimilarQueriesOf(rows, query)

(***************************************************************************)
(* rag_answer, step by step                                                *)
(***************************************************************************)
\* a Python dict as the sequence of its items in insertion order
DictKeys(d) == {d[i].key : i \in 1..Len(d)}

\* d[k] = val: a new key goes last, an old key keeps its place
DictPut(d, k, val) ==
  IF k \in DictKeys(d)
  THEN [i \in 1..Len(d) |-> IF d[i].key = k THEN [key |-> k, value |-> val] ELSE d[i]]
  ELSE Append(d, [key |-> k, value |-> val])

Collection(collection_id) ==
  IF \E c \in collections : c.id = collection_id
  THEN CHOOSE c \in collections : c.id = collection_id
  ELSE [id |-> "None", query |-> <<>>]

\* the collection_query values of the collections found for the supplied ids
\* (lines 271-276)
CollectionQueries(ids) ==
  {Collection(ids[i]).query : i \in {j \in 1..Len(ids) : Collection(ids[j]).id # "None"}}

\* the loop over feedback_records of one collection (lines 284-293)
RECURSIVE CollectFeedback(_, _, _)
CollectFeedback(rows, collection_query, acc) ==
  IF rows = <<>> THEN acc
  ELSE LET fb == Head(rows)
           next == IF fb.query # collection_query THEN acc
                   ELSE IF fb.feedback = "good"
                        THEN [acc EXCEPT !.liked = DictPut(@, fb.video_id, collection_query)]
                   ELSE IF fb.feedback = "bad"
                        THEN [acc EXCEPT !.disliked = DictPut(@, fb.video_id, collection_query)]
                   ELSE acc
       IN  CollectFeedback(Tail(rows), collection_query, next)

\* the loop over payload.similar_collection_ids (lines 271-293); fb_rows is
\* the order in which the feedback table yields its rows
RECURSIVE CollectCollections(_, _, _)
CollectCollections(ids, fb_rows, acc) ==
  IF ids = <<>> THEN acc
  ELSE LET collection == Collection(Head(ids))
       IN  IF collection.id = "None"
           THEN CollectCollections(Tail(ids), fb_rows, acc)
           ELSE CollectCollections(Tail(ids), fb_rows,
                                   CollectFeedback(fb_rows, collection.query, acc))

RECURSIVE UnionOf(_, _)
UnionOf(similar_queries, field) ==
  IF similar_queries = <<>> THEN {}
  ELSE (IF field = "good" THEN Head(similar_queries).good_video_ids
        ELSE Head(similar_queries).bad_video_ids) \cup UnionOf(Tail(similar_queries), field)

\* lines 324-351
ExcludedFromDict(d, reason) ==
  [i \in 1..Len(d) |-> [video_id |-> d[i].key, reason |-> reason, source_reference |-> d[i].value]]

\* mutation: the videos disliked in similar queries are not listed
ExcludedFromQueries_None(order, disliked_from_collections) == <<>>

RECURSIVE ExcludedFromQueries(_, _)
ExcludedFromQueries(order, disliked_from_collections) ==
  IF order = <<>> THEN <<>>
  ELSE (IF Head(order) \notin DictKeys(disliked_from_collections)
        THEN <<[video_id |-> Head(order), reason |-> "bad_feedback", source_reference |-> "similar_query"]>>
        ELSE <<>>) \o ExcludedFromQueries(Tail(order), disliked_from_collections)

ExcludedVideosList(liked_from_collections, disliked_from_collections, disliked_order) ==
  ExcludedFromDict(liked_from_collections, "liked_in_collection")
  \o ExcludedFromDict(disliked_from_collections, "disliked_in_collection")
  \o ExcludedFromQueries(disliked_order, disliked_from_collections)

\* mutation: the search hits are not filtered
FilteredHits_Unfiltered(hits, exclude_video_ids) == hits

\* line 359
RECURSIVE FilteredHits(_, _)
FilteredHits(hits, exclude_video_ids) ==
  IF hits = <<>> THEN <<>>
  ELSE (IF Head(hits).video_id \notin exclude_video_ids THEN <<Head(hits)>> ELSE <<>>)
       \o FilteredHits(Tail(hits), exclude_video_ids)

\* mutation: a liked video is fetched only if its transcript is embedded
Materializable_NeedsEmbedding(video_id) == video_id \in videos /\ transcripts[video_id] = "embedded"

\* db.get(Video, video_id) and db.get(Transcript, video_id) both find a row
Materializable(video_id) == video_id \in videos /\ transcripts[video_id] # "none"

One == [num |-> 1, den |-> 1]

\* lines 363-384
RECURSIVE SourcesFromCollections(_)
SourcesFromCollections(liked_from_collections) ==
  IF liked_from_collections = <<>> THEN <<>>
  ELSE LET item == Head(liked_from_collections)
       IN  (IF Materializable(item.key)
            THEN <<[video_id |-> item.key, score |-> One,
                    source_type |-> "collection", source_reference |-> item.value]>>
            ELSE <<>>) \o SourcesFromCollections(Tail(liked_from_collections))

\* mutation: no "already included" test against liked_from_collections
RECURSIVE SourcesFromQueries_NoDedup(_, _)
SourcesFromQueries_NoDedup(order, liked_from_collections) ==
  IF order = <<>> THEN <<>>
  ELSE (IF Materializable(Head(order))
        THEN <<[video_id |-> Head(order), score |-> One,
                source_type |-> "feedback", source_reference |-> "similar_query"]>>
        ELSE <<>>) \o SourcesFromQueries_NoDedup(Tail(order), liked_from_collections)

\* lines 389-412; order: the iteration order of the set liked_from_queries
RECURSIVE SourcesFromQueries(_, _)
SourcesFromQueries(order, liked_from_collections) ==
  IF order = <<>> THEN <<>>
  ELSE (IF Head(order) \notin DictKeys(liked_from_collections) /\ Materializable(Head(order))
        THEN <<[video_id |-> Head(order), score |-> One,
                source_type |-> "feedback", source_reference |-> "similar_query"]>>
        ELSE <<>>) \o SourcesFromQueries(Tail(order), liked_from_collections)

\* lines 428-433
SourcesFromSearch(filtered_hits) ==
  [i \in 1..Len(filtered_hits) |->
     [video_id |-> filtered_hits[i].video_id, score |-> filtered_hits[i].score,
      source_type |-> "search", source_reference |-> "None"]]

\* mutation: no truncation to k_final
TopSources_Untruncated(sources_from_collections, sources_from_queries, filtered_hits, k_final) ==
  sources_from_collections \o sources_from_queries \o SourcesFromSearch(filtered_hits)

\* mutation: the fresh hits are merged first
TopSources_SearchFirst(sources_from_collections, sources_from_queries, filtered_hits, k_final) ==
  Take(SourcesFromSearch(filtered_hits) \o sources_from_collections \o sources_from_queries, k_final)

\* mutation: the cut to k_final is made before the fresh hits are added
TopSources_CutBeforeSearch(sources_from_collections, sources_from_queries, filtered_hits, k_final) ==
  Take(sources_from_collections \o sources_from_queries, k_final) \o SourcesFromSearch(filtered_hits)

\* lines 417-436
TopSources(sources_from_collections, sources_from_queries, filtered_hits, k_final) ==
  Take(sources_from_collections \o sources_from_queries \o SourcesFromSearch(filtered_hits), k_final)

\* mutation: the exclusion set forgets the feedback of similar queries
ExcludeVideoIds_CollectionsOnly(liked_from_collections, disliked_from_collections, liked_from_queries, disliked_from_queries) ==
  DictKeys(liked_from_collections) \cup DictKeys(disliked_from_collections)

\* lines 311-316
ExcludeVideoIds(liked_from_collections, disliked_from_collections, liked_from_queries, disliked_from_queries) ==
  DictKeys(liked_from_collections) \cup DictKeys(disliked_from_collections)
  \cup liked_from_queries \cup disliked_from_queries

\* mutation: the empty-result test is missing
NoResults_Never(top_sources) == FALSE

\* line 438: if not top_sources
NoResults(top_sources) == top_sources = <<>>

\* what the generator call of lines 526-547 can do
GenOutcomes == {"text", "no_text", "raises", "no_key"}

\* the request-local values of one rag_answer run, kept with the response
RagLocals(query, k_ann, k_final, similar_collection_ids, fb_rows, sq_rows, liked_order, disliked_order, model_ok) ==
  LET from_collections == CollectCollections(similar_collection_ids, fb_rows,
                                             [liked |-> <<>>, disliked |-> <<>>])
      liked_from_collections == from_collections.liked
      disliked_from_collections == from_collections.disliked
      similar_queries == find_similar_queries(query, sq_rows)
      liked_from_queries == UnionOf(similar_queries, "good")
      disliked_from_queries == UnionOf(similar_queries, "bad")
      exclude_video_ids == ExcludeVideoIds(liked_from_collections, disliked_from_collections,
                                           liked_from_queries, disliked_from_queries)
      search_result == search_videos(query, k_final * 2, k_ann, model_ok)
      filtered_hits == FilteredHits(search_result.hits, exclude_video_ids)
      sources_from_collections == SourcesFromCollections(liked_from_collections)
      sources_from_queries == SourcesFromQueries(liked_order, liked_from_collections)
  IN  [query |-> query, k_final |-> k_final,
       collection_queries |-> CollectionQueries(similar_collection_ids),
       similar_queries |-> similar_queries,
       liked_from_collections |-> liked_from_collections,
       disliked_from_collections |-> disliked_from_collections,
       liked_from_queries |-> liked_from_queries,
       disliked_from_queries |-> disliked_from_queries,
       exclude_video_ids |-> exclude_video_ids,
       search_hits |-> search_result.hits,
       search_total |-> search_result.total,
       filtered_hits |-> filtered_hits,
       sources_from_collections |-> sources_from_collections,
       sources_from_queries |-> sources_from_queries,
       excluded_videos_list |-> ExcludedVideosList(liked_from_collections,
                                                   disliked_from_collections, disliked_order),
       top_sources |-> TopSources(sources_from_collections, sources_from_queries,
                                  filtered_hits, k_final)]

\* mutation: the no-information answer drops the transparency list
NoInformationResponse_EmptyLists(locals) ==
  [op |-> "rag_answer", status |-> 200, answer |-> "no_information",
   sources |-> <<>>, excluded_videos |-> <<>>,
   generator_called |-> FALSE, context_parts |-> 0, locals |-> locals]

\* lines 438-445
NoInformationResponse(locals) ==
  [op |-> "rag_answer", status |-> 200, answer |-> "no_information",
   sources |-> <<>>, excluded_videos |-> locals.excluded_videos_list,
   generator_called |-> FALSE, context_parts |-> 0, locals |-> locals]

\* lines 452-557
GeneratedResponse(locals, gen) ==
  LET rag_sources == locals.top_sources
      called == gen # "no_key"
  IN  IF gen \in {"raises", "no_key"}
      THEN [op |-> "rag_answer", status |-> 500,
            generator_called |-> called, context_parts |-> Len(rag_sources)]
      ELSE [op |-> "rag_answer", status |-> 200,
            answer |-> IF gen = "text" THEN "generated" ELSE "Failed to generate answer.",
            sources |-> rag_sources, excluded_videos |-> locals.excluded_videos_list,
            generator_called |-> called, context_parts |-> Len(rag_sources), locals |-> locals]

rag_answer(locals, gen) ==
  IF NoResults(locals.top_sources)
  THEN NoInformationResponse(locals)
  ELSE GeneratedResponse(locals, gen)

(***************************************************************************)
(* Initial state: the database of a service whose catalogue has been       *)
(* ingested (every video has its Video row), with no transcript, feedback  *)
(* or collection yet                                                       *)
(***************************************************************************)
\* no request is being served
Idle == [op |-> "None", status |-> 0]

\* a request slot that serves nothing
NoSession == [pc |-> "idle", query |-> <<>>, video_id |-> "None", feedback |-> "None",
              existing_feedback |-> "None", status |-> 0]

\* the module-level state of a fresh Python process: _model of embeddings.py,
\* the caches of _get_tokenizer and _get_model and _lock of reranker.py.  A
\* loaded object is named by a positive number, 0 is None; the *_loads fields
\* count the objects that were constructed
NoModules ==
  [embedding_model |-> 0, embedding_loads |-> 0,
   tokenizer |-> 0, tokenizer_loads |-> 0,
   model |-> 0, model_loads |-> 0, lock |-> "None"]

Init ==
  /\ videos = VideoIds
  /\ transcripts = [v \in VideoIds |-> "none"]
  /\ feedback = {}
  /\ collections = {}
  /\ resp = Idle
  /\ sessions = [s \in Sessions |-> NoSession]
  /\ modules = NoModules

\* the handler returns: the response goes to the caller, and the service, which
\* keeps no state between requests, takes the next request
send_response ==
  /\ resp # Idle
  /\ resp' = Idle
  /\ UNCHANGED <<videos, transcripts, feedback, collections, sessions, modules>>

(***************************************************************************)
(* Handlers that build the document store                                  *)
(***************************************************************************)
\* POST /videos/ingest_url; the link determines the video
ingest_url(v) ==
  /\ resp = Idle
  /\ videos' = videos \cup {v}
  /\ resp' = [op |-> "ingest_url", status |-> 200, already_exists |-> v \in videos]
  /\ UNCHANGED <<transcripts, feedback, collections, sessions, modules>>

\* DELETE /videos/{video_id}
delete_video(v) ==
  /\ resp = Idle
  /\ IF v \notin videos
     THEN /\ resp' = [op |-> "delete_video", status |-> 404]
          /\ UNCHANGED <<videos, transcripts>>
     ELSE /\ videos' = videos \ {v}
          /\ transcripts' = [transcripts EXCEPT ![v] = "none"]
          /\ resp' = [op |-> "delete_video", status |-> 200]
  /\ UNCHANGED <<feedback, collections, sessions, modules>>

\* PUT /videos/{video_id}/transcript: text and embedding in one commit
put_transcript(v) ==
  /\ resp = Idle
  /\ IF v \notin videos
     THEN /\ resp' = [op |-> "put_transcript", status |-> 404]
          /\ UNCHANGED transcripts
     ELSE /\ transcripts' = [transcripts EXCEPT ![v] = "embedded"]
          /\ resp' = [op |-> "put_transcript", status |-> 200]
  /\ UNCHANGED <<videos, feedback, collections, sessions, modules>>

\* POST /videos/{video_id}:generate_transcript: the text of the clip is
\* appended and the embedding of the new text is set in the same commit
\* (lines 283-310); a missing key, a failed download or transcription, or an
\* embed_text that raises, end the request before the commit
generate_transcript(v) ==
  /\ resp = Idle
  /\ IF v \notin videos
     THEN /\ resp' = [op |-> "generate_transcript", status |-> 404]
          /\ UNCHANGED transcripts
     ELSE \E outcome \in {"ok", "no_key", "transcription_fails", "embed_raises"} :
            IF outcome = "ok"
            THEN /\ transcripts' = [transcripts EXCEPT ![v] = "embedded"]
                 /\ resp' = [op |-> "generate_transcript", status |-> 200]
            ELSE /\ resp' = [op |-> "generate_transcript",
                             status |-> IF outcome = "transcription_fails" THEN 502 ELSE 500]
                 /\ UNCHANGED transcripts
  /\ UNCHANGED <<videos, feedback, collections, sessions, modules>>

\* celery task transcribe_video: stores the text, the embedding comes later
transcribe_video_task(v) ==
  /\ resp = Idle
  /\ v \in videos
  /\ transcripts[v] = "none"
  /\ transcripts' = [transcripts EXCEPT ![v] = "text"]
  /\ resp' = [op |-> "transcribe_video_task", status |-> 0]
  /\ UNCHANGED <<videos, feedback, collections, sessions, modules>>

\* celery task generate_embeddings
generate_embeddings_task(v) ==
  /\ resp = Idle
  /\ v \in videos
  /\ transcripts[v] # "none"
  /\ transcripts' = [transcripts EXCEPT ![v] = "embedded"]
  /\ resp' = [op |-> "generate_embeddings_task", status |-> 0]
  /\ UNCHANGED <<videos, feedback, collections, sessions, modules>>

(***************************************************************************)
(* Feedback and collection handlers                                        *)
(***************************************************************************)
\* the records of the pair (q, v) in the table fb: the filter of lines 692-695
\* and 738-741
PairRecords(fb, q, v) == {f \in fb : f.query = q /\ f.video_id = v}

OtherRecords(fb, q, v) == fb \ PairRecords(fb, q, v)

\* the table holds a record of the pair or is below the bound of the model
HasRoom(q, v) == PairRecords(feedback, q, v) # {} \/ Cardinality(feedback) < MaxFeedback

\* the response of POST /search/feedback with what the handler did on the way:
\* whether it called embed_text, whether it queried the table, and the label
\* of the record it found ("None": it found none)
FeedbackResponse(status, embed_text_called, db_queried, previous) ==
  [op |-> "save_retrieval_feedback", status |-> status,
   embed_text_called |-> embed_text_called, db_queried |-> db_queried, previous |-> previous]

\* mutation: the label is not validated
save_retrieval_feedback_NoValidation(q, v, label) ==
  /\ resp = Idle
  /\ LET existing == {f \in feedback : f.query = q /\ f.video_id = v}
     IN  /\ feedback' = (feedback \ existing) \cup {[query |-> q, video_id |-> v, feedback |-> label]}
         /\ resp' = FeedbackResponse(201, TRUE, TRUE, "None")
  /\ UNCHANGED <<videos, transcripts, collections, sessions, modules>>

\* mutation: the record is always added, an existing one is not looked for
save_retrieval_feedback_Append(q, v, label) ==
  /\ resp = Idle
  /\ IF label \notin {"good", "bad"}
     THEN /\ resp' = FeedbackResponse(400, FALSE, FALSE, "None")
          /\ UNCHANGED feedback
     ELSE /\ feedback' = feedback \cup {[query |-> q, video_id |-> v, feedback |-> label]}
          /\ resp' = FeedbackResponse(201, TRUE, TRUE, "None")
  /\ UNCHANGED <<videos, transcripts, collections, sessions, modules>>

\* POST /search/feedback; embed_text either returns the embedding or raises
save_retrieval_feedback(q, v, label) ==
  /\ resp = Idle
  /\ IF label \notin {"good", "bad"}
     THEN /\ resp' = FeedbackResponse(400, FALSE, FALSE, "None")
          /\ UNCHANGED feedback
     ELSE \E embedded \in BOOLEAN :
            IF ~embedded
            THEN /\ resp' = FeedbackResponse(500, TRUE, FALSE, "None")
                 /\ UNCHANGED feedback
            ELSE LET existing == {f \in feedback : f.query = q /\ f.video_id = v}
                     existing_feedback == IF existing = {} THEN "None"
                                          ELSE (CHOOSE f \in existing : TRUE).feedback
                 IN  /\ feedback' = (feedback \ existing)
                                      \cup {[query |-> q, video_id |-> v, feedback |-> label]}
                     /\ resp' = FeedbackResponse(201, TRUE, TRUE, existing_feedback)
  /\ UNCHANGED <<videos, transcripts, collections, sessions, modules>>

\* DELETE /search/feedback
delete_retrieval_feedback(q, v) ==
  LET existing == {f \in feedback : f.query = q /\ f.video_id = v}
  IN  /\ resp = Idle
      /\ feedback' = feedback \ existing
      /\ resp' = [op |-> "delete_retrieval_feedback", status |-> 200, deleted |-> Cardinality(existing)]
      /\ UNCHANGED <<videos, transcripts, collections, sessions, modules>>

(***************************************************************************)
(* POST /search/feedback served for several requests at once.  Each        *)
(* request has its own database session; it reads the table at its lookup  *)
(* and writes it at its commit, and other requests may run in between.     *)
(* The rows carry the primary key the table gives them, here the name of   *)
(* the request that inserted them.                                         *)
(***************************************************************************)
\* INSERT INTO retrieval_feedback: the table has no uniqueness rule on
\* (query, video_id), a row is added whatever rows it holds
InsertFeedbackRow(fb, row) == fb \cup {row}

\* lines 680-695: the label test, embed_text, and the lookup .first(), which
\* yields any one row of the pair
save_retrieval_feedback_lookup(s, q, v, label) ==
  /\ sessions[s].pc = "idle"
  /\ IF label \notin {"good", "bad"}
     THEN sessions' = [sessions EXCEPT ![s] = [NoSession EXCEPT !.pc = "done", !.status = 400]]
     ELSE \E embedded \in BOOLEAN :
            IF ~embedded
            THEN sessions' = [sessions EXCEPT ![s] = [NoSession EXCEPT !.pc = "done", !.status = 500]]
            ELSE \E existing \in (IF PairRecords(feedback, q, v) = {} THEN {"None"}
                                  ELSE {f.row : f \in PairRecords(feedback, q, v)}) :
                   sessions' = [sessions EXCEPT ![s] =
                                  [pc |-> "looked_up", query |-> q, video_id |-> v, feedback |-> label,
                                   existing_feedback |-> existing, status |-> 0]]
  /\ UNCHANGED <<videos, transcripts, feedback, collections, resp, modules>>

\* lines 697-715: update the row found, or add a new one, and commit
save_retrieval_feedback_commit(s) ==
  LET r == sessions[s]
  IN  /\ r.pc = "looked_up"
      /\ feedback' =
           IF r.existing_feedback = "None"
           THEN InsertFeedbackRow(feedback, [query |-> r.query, video_id |-> r.video_id,
                                             feedback |-> r.feedback, row |-> s])
           ELSE {IF f.row = r.existing_feedback /\ f.query = r.query /\ f.video_id = r.video_id
                 THEN [f EXCEPT !.feedback = r.feedback] ELSE f : f \in feedback}
      /\ sessions' = [sessions EXCEPT ![s] = [r EXCEPT !.pc = "done", !.status = 201]]
      /\ UNCHANGED <<videos, transcripts, collections, resp, modules>>

\* the response is sent and the slot takes the next request
save_retrieval_feedback_return(s) ==
  /\ sessions[s].pc = "done"
  /\ sessions' = [sessions EXCEPT ![s] = NoSession]
  /\ UNCHANGED <<videos, transcripts, feedback, collections, resp, modules>>

\* POST /search/similar-queries; embed_text either returns or raises
similar_queries_request(query) ==
  /\ resp = Idle
  /\ IF IsBlank(query)
     THEN resp' = [op |-> "find_similar_queries", status |-> 200, query |-> query,
                   rows |-> <<>>, similar_queries |-> <<>>]
     ELSE \E embedded \in BOOLEAN :
            IF ~embedded
            THEN resp' = [op |-> "find_similar_queries", status |-> 500]
            ELSE \E rows \in SimilarQueryRows(query) :
                   resp' = [op |-> "find_similar_queries", status |-> 200, query |-> query,
                            rows |-> rows, similar_queries |-> find_similar_queries(query, rows)]
  /\ UNCHANGED <<videos, transcripts, feedback, collections, sessions, modules>>

\* POST /collections/ ; the id is a fresh uuid; the handler stores no
\* query_embedding
create_collection(c, q, video_ids) ==
  /\ resp = Idle
  /\ \A x \in collections : x.id # c
  /\ collections' = collections \cup {[id |-> c, query |-> q, video_ids |-> video_ids,
                                        query_embedding |-> "NULL"]}
  /\ resp' = [op |-> "create_collection", status |-> 200]
  /\ UNCHANGED <<videos, transcripts, feedback, sessions, modules>>

\* DELETE /collections/{collection_id}
delete_collection(c) ==
  /\ resp = Idle
  /\ IF \A x \in collections : x.id # c
     THEN /\ resp' = [op |-> "delete_collection", status |-> 404]
          /\ UNCHANGED collections
     ELSE /\ collections' = {x \in collections : x.id # c}
          /\ resp' = [op |-> "delete_collection", status |-> 200]
  /\ UNCHANGED <<videos, transcripts, feedback, sessions, modules>>

\* one call of rerank(query, docs)
rerank_call(docs, scores, model_ok) ==
  /\ resp = Idle
  /\ resp' = [op |-> "rerank", status |-> 0, docs |-> docs, scores |-> scores,
               model_ok |-> model_ok, ranked |-> rerank(docs, scores, model_ok)]
  /\ UNCHANGED <<videos, transcripts, feedback, collections, sessions, modules>>

\* backend/backfill_collection_embeddings.py: every collection without
\* embedding gets one, unless embed_text raises for it
backfill_embeddings ==
  /\ resp = Idle
  /\ \E failed \in SUBSET {c.id : c \in {x \in collections : x.query_embedding = "NULL"}} :
       /\ collections' = {IF c.query_embedding = "NULL" /\ c.id \notin failed
                           THEN [c EXCEPT !.query_embedding = "embedding"] ELSE c : c \in collections}
       /\ resp' = [op |-> "backfill_embeddings", status |-> 0,
                    updated_count |-> Cardinality({c \in collections : c.query_embedding = "NULL"})
                                      - Cardinality(failed)]
  /\ UNCHANGED <<videos, transcripts, feedback, sessions, modules>>

(***************************************************************************)
(* find_similar_collections                                                *)
(***************************************************************************)
\* LIMIT 10 of the similar-collections SQL
SimilarCollectionsLimit == 10
\* similarity > 0.50, scaled by 100
SimilarCollectionsThreshold == 50

\* WHERE query_embedding IS NOT NULL AND similarity > 0.50
MatchingCollections(query) ==
  {c \in collections : c.query_embedding # "NULL"
                        /\ Similarity(c.query, query) > SimilarCollectionsThreshold}

\* ORDER BY similarity DESC: rows of equal similarity in any order
RECURSIVE CollectionOrders(_, _)
CollectionOrders(S, query) ==
  IF S = {} THEN {<<>>}
  ELSE LET top == {c \in S : \A r \in S : Similarity(c.query, query) >= Similarity(r.query, query)}
       IN  UNION {{<<c>> \o rest : rest \in CollectionOrders(S \ {c}, query)} : c \in top}

SimilarCollectionRows(query) ==
  {Take(s, SimilarCollectionsLimit) : s \in CollectionOrders(MatchingCollections(query), query)}

\* mutation: the ids are not looked up in the videos table
RECURSIVE CollectionVideos_NoLookup(_)
CollectionVideos_NoLookup(video_ids) ==
  IF video_ids = <<>> THEN <<>>
  ELSE <<Head(video_ids)>> \o CollectionVideos_NoLookup(Tail(video_ids))

\* lines 972-997: the videos of video_ids that are found, in the order of video_ids
RECURSIVE CollectionVideos(_)
CollectionVideos(video_ids) ==
  IF video_ids = <<>> THEN <<>>
  ELSE (IF Head(video_ids) \in videos THEN <<Head(video_ids)>> ELSE <<>>)
       \o CollectionVideos(Tail(video_ids))

\* lines 963-1007
RECURSIVE SimilarCollectionsOf(_, _)
SimilarCollectionsOf(rows, query) ==
  IF rows = <<>> THEN <<>>
  ELSE (IF SameQuery(Head(rows).query, query) THEN <<>>
        ELSE <<[id |-> Head(rows).id, query |-> Head(rows).query,
                similarity |-> Similarity(Head(rows).query, query),
                videos |-> CollectionVideos(Head(rows).video_ids)]>>)
       \o SimilarCollectionsOf(Tail(rows), query)

find_similar_collections(query, rows) ==
  IF IsBlank(query) THEN <<>> ELSE SimilarCollectionsOf(rows, query)

\* POST /search/similar-collections; embed_text either returns or raises
similar_collections_request(query) ==
  /\ resp = Idle
  /\ IF IsBlank(query)
     THEN resp' = [op |-> "find_similar_collections", status |-> 200, query |-> query,
                   rows |-> <<>>, collections |-> <<>>]
     ELSE \E embedded \in BOOLEAN :
            IF ~embedded
            THEN resp' = [op |-> "find_similar_collections", status |-> 500]
            ELSE \E rows \in SimilarCollectionRows(query) :
                   resp' = [op |-> "find_similar_collections", status |-> 200, query |-> query,
                            rows |-> rows, collections |-> find_similar_collections(query, rows)]
  /\ UNCHANGED <<videos, transcripts, feedback, collections, sessions, modules>>

(***************************************************************************)
(* POST /search/rag                                                        *)
(***************************************************************************)
\* the lists of collection ids a request may carry
CollectionIdLists ==
  {<<>>} \cup {<<c>> : c \in CollectionIds}
  \cup {<<c, d>> : <<c, d>> \in {p \in CollectionIds \X CollectionIds : p[1] # p[2]}}

rag_request(query, k_ann, k_final, similar_collection_ids) ==
  /\ resp = Idle
  /\ IF IsBlank(query)
     THEN resp' = [op |-> "rag_answer", status |-> 400]
     ELSE LET queries == CollectionQueries(similar_collection_ids)
          IN  \E fb_rows \in Perms({f \in feedback : f.query \in queries}),
                 sq_rows \in SimilarQueryRows(query) :
                LET similar_queries == find_similar_queries(query, sq_rows)
                IN  \E liked_order \in Perms(UnionOf(similar_queries, "good")),
                       disliked_order \in Perms(UnionOf(similar_queries, "bad")),
                       model_ok \in (IF AnnResult(query, k_ann) = <<>> THEN {TRUE} ELSE BOOLEAN) :
                      LET locals == RagLocals(query, k_ann, k_final, similar_collection_ids,
                                              fb_rows, sq_rows, liked_order, disliked_order,
                                              model_ok)
                      IN  \E gen \in (IF NoResults(locals.top_sources) THEN {"text"} ELSE GenOutcomes) :
                            resp' = rag_answer(locals, gen)
  /\ UNCHANGED <<videos, transcripts, feedback, collections, sessions, modules>>

(***************************************************************************)
(* Lazy loading of the models.  The handlers are plain functions that the  *)
(* server runs in a pool of threads, so calls of embed_text and rerank     *)
(* interleave between any two of the steps below.  sessions[s] holds the   *)
(* position of the thread s and its local variables.                       *)
(***************************************************************************)
\* the texts embed_text is called with
EmbedTexts == {QA, QBlank}

\* the locals of a thread that runs embed_text or rerank
Thread(pc, tok, model, result) == [pc |-> pc, tok |-> tok, model |-> model, result |-> result]

\* embed_text up to the test of line 18: empty text returns the zero vector
\* without the model; "if _model is None" sends the thread to the constructor
\* or to the return of line 29
embed_text_call(s, text) ==
  /\ sessions[s].pc = "idle"
  /\ sessions' = [sessions EXCEPT ![s] =
                    IF IsBlank(text) THEN Thread("returned", 0, 0, "zero_vector")
                    ELSE IF modules.embedding_model = 0 THEN Thread("construct", 0, 0, "None")
                    ELSE Thread("return_model", 0, 0, "None")]
  /\ UNCHANGED <<videos, transcripts, feedback, collections, resp, modules>>

\* line 22: _model = SentenceTransformer(_MODEL_NAME); the constructor makes a
\* new object or raises
get_embedding_model_construct(s) ==
  /\ sessions[s].pc = "construct"
  /\ \E ok \in BOOLEAN :
       IF ok
       THEN /\ modules' = [modules EXCEPT !.embedding_model = modules.embedding_loads + 1,
                                          !.embedding_loads = @ + 1]
            /\ sessions' = [sessions EXCEPT ![s] = Thread("return_model", 0, 0, "None")]
       ELSE /\ sessions' = [sessions EXCEPT ![s] = Thread("returned", 0, 0, "error")]
            /\ UNCHANGED modules
  /\ UNCHANGED <<videos, transcripts, feedback, collections, resp>>

\* line 29, return _model, and lines 47-50: the caller encodes with the object
\* the global holds now
get_embedding_model_return(s) ==
  /\ sessions[s].pc = "return_model"
  /\ sessions' = [sessions EXCEPT ![s] = Thread("returned", 0, modules.embedding_model, "embedding")]
  /\ UNCHANGED <<videos, transcripts, feedback, collections, resp, modules>>

\* rerank with documents reaches the with statement of line 93
rerank_enter(s) ==
  /\ sessions[s].pc = "idle"
  /\ sessions' = [sessions EXCEPT ![s] = Thread("acquire", 0, 0, "None")]
  /\ UNCHANGED <<videos, transcripts, feedback, collections, resp, modules>>

\* mutation: the with statement does not wait for the lock
rerank_acquire_NoLock(s) ==
  /\ sessions[s].pc = "acquire"
  /\ modules' = [modules EXCEPT !.lock = s]
  /\ sessions' = [sessions EXCEPT ![s].pc = "tokenizer_lookup"]
  /\ UNCHANGED <<videos, transcripts, feedback, collections, resp>>

\* with _lock: the thread waits until the lock is free and takes it
rerank_acquire(s) ==
  /\ sessions[s].pc = "acquire"
  /\ modules.lock = "None"
  /\ modules' = [modules EXCEPT !.lock = s]
  /\ sessions' = [sessions EXCEPT ![s].pc = "tokenizer_lookup"]
  /\ UNCHANGED <<videos, transcripts, feedback, collections, resp>>

\* _get_tokenizer(): lru_cache looks the result up; a miss calls the function
get_tokenizer_lookup(s) ==
  /\ sessions[s].pc = "tokenizer_lookup"
  /\ sessions' = [sessions EXCEPT ![s] =
                    IF modules.tokenizer = 0 THEN [@ EXCEPT !.pc = "tokenizer_load"]
                    ELSE [@ EXCEPT !.pc = "model_lookup", !.tok = modules.tokenizer]]
  /\ UNCHANGED <<videos, transcripts, feedback, collections, resp, modules>>

\* lines 20-21: AutoTokenizer.from_pretrained loads a tokenizer, which
\* lru_cache stores, or raises: the with statement releases the lock and the
\* except branch of rerank returns the fallback
get_tokenizer_load(s) ==
  /\ sessions[s].pc = "tokenizer_load"
  /\ \E ok \in BOOLEAN :
       IF ok
       THEN /\ modules' = [modules EXCEPT !.tokenizer = modules.tokenizer_loads + 1,
                                          !.tokenizer_loads = @ + 1]
            /\ sessions' = [sessions EXCEPT ![s].pc = "model_lookup",
                                            ![s].tok = modules.tokenizer_loads + 1]
       ELSE /\ modules' = [modules EXCEPT !.lock = IF @ = s THEN "None" ELSE @]
            /\ sessions' = [sessions EXCEPT ![s] = Thread("returned", 0, 0, "fallback")]
  /\ UNCHANGED <<videos, transcripts, feedback, collections, resp>>

\* _get_model(): the lookup of lru_cache
get_model_lookup(s) ==
  /\ sessions[s].pc = "model_lookup"
  /\ sessions' = [sessions EXCEPT ![s] =
                    IF modules.model = 0 THEN [@ EXCEPT !.pc = "model_load"]
                    ELSE [@ EXCEPT !.pc = "release", !.model = modules.model]]
  /\ UNCHANGED <<videos, transcripts, feedback, collections, resp, modules>>

\* lines 27-31: from_pretrained and eval() give the model, or raise
get_model_load(s) ==
  /\ sessions[s].pc = "model_load"
  /\ \E ok \in BOOLEAN :
       IF ok
       THEN /\ modules' = [modules EXCEPT !.model = modules.model_loads + 1,
                                          !.model_loads = @ + 1]
            /\ sessions' = [sessions EXCEPT ![s].pc = "release",
                                            ![s].model = modules.model_loads + 1]
       ELSE /\ modules' = [modules EXCEPT !.lock = IF @ = s THEN "None" ELSE @]
            /\ sessions' = [sessions EXCEPT ![s] = Thread("returned", 0, 0, "fallback")]
  /\ UNCHANGED <<videos, transcripts, feedback, collections, resp>>

\* the end of the with statement; scoring follows with the thread's tok and model
rerank_release(s) ==
  /\ sessions[s].pc = "release"
  /\ modules' = [modules EXCEPT !.lock = IF @ = s THEN "None" ELSE @]
  /\ sessions' = [sessions EXCEPT ![s] = [@ EXCEPT !.pc = "returned", !.result = "ranked"]]
  /\ UNCHANGED <<videos, transcripts, feedback, collections, resp>>

\* the call is over and the thread takes the next request
thread_return(s) ==
  /\ sessions[s].pc = "returned"
  /\ sessions' = [sessions EXCEPT ![s] = NoSession]
  /\ UNCHANGED <<videos, transcripts, feedback, collections, resp, modules>>

\* POST /search/query as a request of its own; embed_text or the ANN query may
\* raise (lines 104-147)
search_request(query, k, k_ann) ==
  /\ resp = Idle
  /\ IF IsBlank(query)
     THEN resp' = [op |-> "search_videos", status |-> 200, query |-> query, hits |-> <<>>, total |-> 0]
     ELSE \E outcome \in {"ok", "embed_raises", "db_raises"} :
            IF outcome # "ok"
            THEN resp' = [op |-> "search_videos", status |-> 500]
            ELSE \E model_ok \in (IF AnnResult(query, k_ann) = <<>> THEN {TRUE} ELSE BOOLEAN) :
                   LET result == search_videos(query, k, k_ann, model_ok)
                   IN  resp' = [op |-> "search_videos", status |-> 200, query |-> query,
                                hits |-> result.hits, total |-> result.total]
  /\ UNCHANGED <<videos, transcripts, feedback, collections, sessions, modules>>

\* mutation: the records that are read are removed from the table
get_retrieval_feedback_Consumes(query, video_ids) ==
  /\ resp = Idle
  /\ feedback' = {f \in feedback : ~(f.query = query /\ f.video_id \in Range(video_ids))}
  /\ resp' = [op |-> "get_retrieval_feedback", status |-> 200, query |-> query,
               feedback |-> {[video_id |-> f.video_id, feedback |-> f.feedback] :
                               f \in {g \in feedback : g.query = query /\ g.video_id \in Range(video_ids)}}]
  /\ UNCHANGED <<videos, transcripts, collections, sessions, modules>>

\* POST /search/feedback/get: DISTINCT ON (video_id) yields one record, the
\* newest, for each video of video_ids that has records under the query
get_retrieval_feedback(query, video_ids) ==
  /\ resp = Idle
  /\ IF video_ids = <<>>
     THEN resp' = [op |-> "get_retrieval_feedback", status |-> 200, query |-> query, feedback |-> {}]
     ELSE \E db_ok \in BOOLEAN :
            IF ~db_ok
            THEN resp' = [op |-> "get_retrieval_feedback", status |-> 500]
            ELSE LET found == {v \in Range(video_ids) : PairRecords(feedback, query, v) # {}}
                 IN  \E newest \in [found -> FeedbackLabels] :
                       /\ \A v \in found : \E f \in PairRecords(feedback, query, v) : f.feedback = newest[v]
                       /\ resp' = [op |-> "get_retrieval_feedback", status |-> 200, query |-> query,
                                    feedback |-> {[video_id |-> v, feedback |-> newest[v]] : v \in found}]
  /\ UNCHANGED <<videos, transcripts, feedback, collections, sessions, modules>>

(***************************************************************************)
(* The basic RAG endpoint of backend/app/routes_search.py, which knows no   *)
(* feedback, and the two endpoints side by side                            *)
(***************************************************************************)
\* mutation: the batch is cut to k before the softmax
backend_search_videos_SoftmaxAfterCut(query, k, k_ann, model_ok) ==
  IF IsBlank(query) THEN [hits |-> <<>>, total |-> 0]
  ELSE LET result == AnnResult(query, k_ann)
           ranked_docs == rerank(result, CrossEncoderScores(query, result), model_ok)
       IN  [hits |-> Softmax(Take(ranked_docs, k)), total |-> Len(result)]

\* search_videos of the backend
backend_search_videos(query, k, k_ann, model_ok) ==
  IF IsBlank(query) THEN [hits |-> <<>>, total |-> 0]
  ELSE LET result == AnnResult(query, k_ann)
           ranked_docs == rerank(result, CrossEncoderScores(query, result), model_ok)
       IN  [hits |-> Take(Softmax(ranked_docs), k), total |-> Len(result)]

\* rag_answer of the backend: the hits of search_videos with k = k_final are
\* the sources
backend_rag_answer(query, k_ann, k_final, model_ok, gen) ==
  LET search_result == backend_search_videos(query, k_final, k_ann, model_ok)
      top_hits == search_result.hits
  IN  IF top_hits = <<>>
      THEN [op |-> "rag_answer", status |-> 200, answer |-> "no_information",
            sources |-> <<>>, generator_called |-> FALSE]
      ELSE IF gen \in {"raises", "no_key"}
      THEN [op |-> "rag_answer", status |-> 500, generator_called |-> gen # "no_key"]
      ELSE [op |-> "rag_answer", status |-> 200,
            answer |-> IF gen = "text" THEN "generated" ELSE "Failed to generate answer.",
            sources |-> [i \in 1..Len(top_hits) |->
                           [video_id |-> top_hits[i].video_id, score |-> top_hits[i].score]],
            generator_called |-> TRUE]

\* the same request, without similar_collection_ids, served by both endpoints
\* over the same store, with the same reranker and generator behaviour
rag_answer_both(query, k_ann, k_final) ==
  /\ resp = Idle
  /\ IF IsBlank(query)
     THEN resp' = [op |-> "rag_answer_both", status |-> 0, query |-> query,
                   aware |-> [op |-> "rag_answer", status |-> 400],
                   basic |-> [op |-> "rag_answer", status |-> 400]]
     ELSE \E sq_rows \in SimilarQueryRows(query) :
            LET similar_queries == find_similar_queries(query, sq_rows)
            IN  \E liked_order \in Perms(UnionOf(similar_queries, "good")),
                   disliked_order \in Perms(UnionOf(similar_queries, "bad")),
                   model_ok \in (IF AnnResult(query, k_ann) = <<>> THEN {TRUE} ELSE BOOLEAN),
                   gen \in GenOutcomes :
                  LET locals == RagLocals(query, k_ann, k_final, <<>>, <<>>, sq_rows,
                                          liked_order, disliked_order, model_ok)
                  IN  resp' = [op |-> "rag_answer_both", status |-> 0, query |-> query,
                               aware |-> rag_answer(locals, gen),
                               basic |-> backend_rag_answer(query, k_ann, k_final, model_ok, gen)]
  /\ UNCHANGED <<videos, transcripts, feedback, collections, sessions, modules>>

\* one request without similar_collection_ids served twice over the same
\* store: the database, the reranker and the generator behave alike in both
\* runs, only the iteration order of the set liked_from_queries is each run's
\* own
rag_answer_twice(query, k_ann, k_final) ==
  /\ resp = Idle
  /\ ~IsBlank(query)
  /\ \E sq_rows \in SimilarQueryRows(query) :
       LET similar_queries == find_similar_queries(query, sq_rows)
       IN  \E liked_order \in Perms(UnionOf(similar_queries, "good")),
              liked_order_2 \in Perms(UnionOf(similar_queries, "good")),
              disliked_order \in Perms(UnionOf(similar_queries, "bad")),
              model_ok \in (IF AnnResult(query, k_ann) = <<>> THEN {TRUE} ELSE BOOLEAN),
              gen \in GenOutcomes :
             resp' = [op |-> "rag_answer_twice", status |-> 0, query |-> query,
                      first |-> rag_answer(RagLocals(query, k_ann, k_final, <<>>, <<>>, sq_rows,
                                                     liked_order, disliked_order, model_ok), gen),
                      second |-> rag_answer(RagLocals(query, k_ann, k_final, <<>>, <<>>, sq_rows,
                                                      liked_order_2, disliked_order, model_ok), gen)]
  /\ UNCHANGED <<videos, transcripts, feedback, collections, sessions, modules>>

\* the retrieval core over a fixed catalogue
Next ==
  \/ send_response
  \/ \E v \in VideoIds : put_transcript(v)
  \/ \E v \in VideoIds : transcribe_video_task(v)
  \/ \E v \in VideoIds : generate_embeddings_task(v)
  \/ \E q \in QueryTexts, v \in VideoIds, label \in FeedbackLabels \cup InvalidLabels :
       HasRoom(q, v) /\ save_retrieval_feedback(q, v, label)
  \/ \E q \in QueryTexts, v \in VideoIds : delete_retrieval_feedback(q, v)
  \/ \E c \in CollectionIds, q \in QueryTexts : create_collection(c, q, <<>>)
  \/ \E c \in CollectionIds : delete_collection(c)
  \/ \E query \in RequestQueries, k_ann \in KAnnValues, k_final \in KFinalValues,
        similar_collection_ids \in CollectionIdLists :
       rag_request(query, k_ann, k_final, similar_collection_ids)

Spec == Init /\ [][Next]_vars

\* the feedback store alone: any sequence of save and delete calls
NextFeedback ==
  \/ send_response
  \/ \E q \in QueryTexts, v \in VideoIds, label \in FeedbackLabels \cup InvalidLabels :
       HasRoom(q, v) /\ save_retrieval_feedback(q, v, label)
  \/ \E q \in QueryTexts, v \in VideoIds : delete_retrieval_feedback(q, v)

SpecFeedback == Init /\ [][NextFeedback]_vars

\* the feedback store with many query texts, and the lookup of similar queries
NextSimilarQueries ==
  \/ send_response
  \/ \E p \in SimilarPairs, label \in FeedbackLabels : save_retrieval_feedback(p[1], p[2], label)
  \/ \E p \in SimilarPairs : delete_retrieval_feedback(p[1], p[2])
  \/ \E query \in RequestQueries \cup {QB} : similar_queries_request(query)

SpecSimilarQueries == Init /\ [][NextSimilarQueries]_vars

\* a service with eight saved collections; more are created, backfilled and
\* deleted, videos are deleted and ingested again, and similar collections
\* are looked up
InitSimilarCollections ==
  /\ videos = VideoIds
  /\ transcripts = [v \in VideoIds |-> "none"]
  /\ feedback = {}
  /\ collections = SavedCollections
  /\ resp = Idle
  /\ sessions = [s \in Sessions |-> NoSession]
  /\ modules = NoModules

NextSimilarCollections ==
  \/ send_response
  \/ \E c \in DynamicCollectionIds, q \in DynamicCollectionQueries, video_ids \in VideoIdLists :
       create_collection(c, q, video_ids)
  \/ \E c \in DynamicCollectionIds : delete_collection(c)
  \/ backfill_embeddings
  \/ \E v \in {"v1", "v2"} : ingest_url(v)
  \/ \E v \in {"v1", "v2"} : delete_video(v)
  \/ \E query \in RequestQueries : similar_collections_request(query)

SpecSimilarCollections == InitSimilarCollections /\ [][NextSimilarCollections]_vars

\* the candidate lists the ANN stage can hand to rerank: videos in any order
CandidateLists == UNION {Perms(S) : S \in SUBSET VideoIds}

\* rerank on every candidate list and every vector of logits
NextRerank ==
  \/ send_response
  \/ \E docs \in CandidateLists, model_ok \in BOOLEAN :
       \E scores \in [1..Len(docs) -> Logits] : rerank_call(docs, scores, model_ok)

SpecRerank == Init /\ [][NextRerank]_vars

\* concurrent saves of feedback on two videos of one query
NextConcurrentSave ==
  \/ \E s \in Sessions, v \in {"v1", "v2"}, label \in FeedbackLabels \cup InvalidLabels :
       save_retrieval_feedback_lookup(s, QB, v, label)
  \/ \E s \in Sessions : save_retrieval_feedback_commit(s)
  \/ \E s \in Sessions : save_retrieval_feedback_return(s)

SpecConcurrentSave == Init /\ [][NextConcurrentSave]_vars

\* the same with a catalogue that grows and shrinks
NextCatalogue ==
  \/ Next
  \/ \E v \in VideoIds : ingest_url(v)
  \/ \E v \in VideoIds : delete_video(v)

SpecCatalogue == Init /\ [][NextCatalogue]_vars

\* every endpoint of the search service together with the handlers that fill
\* the store
NextEndpoints ==
  \/ send_response
  \/ \E v \in VideoIds : put_transcript(v)
  \/ \E q \in QueryTexts, v \in {"v1", "v2"}, label \in FeedbackLabels \cup InvalidLabels :
       HasRoom(q, v) /\ save_retrieval_feedback(q, v, label)
  \/ \E q \in QueryTexts, v \in {"v1", "v2"} : delete_retrieval_feedback(q, v)
  \/ \E c \in CollectionIds, q \in QueryTexts : create_collection(c, q, <<"v1">>)
  \/ \E c \in CollectionIds : delete_collection(c)
  \/ backfill_embeddings
  \/ \E query \in {QA, QBlank}, k_final \in KFinalValues, similar_collection_ids \in CollectionIdLists :
       rag_request(query, 2, k_final, similar_collection_ids)
  \/ \E query \in {QA, QBlank}, k \in KFinalValues : search_request(query, k, 2)
  \/ \E query \in {QA, QBlank} : similar_queries_request(query)
  \/ \E query \in {QA, QBlank} : similar_collections_request(query)
  \/ \E query \in QueryTexts, video_ids \in {<<>>, <<"v1", "v2">>} : get_retrieval_feedback(query, video_ids)

SpecEndpoints == Init /\ [][NextEndpoints]_vars

\* the threads of one process call embed_text and rerank
NextModelLoading ==
  \/ \E s \in Sessions, text \in EmbedTexts : embed_text_call(s, text)
  \/ \E s \in Sessions : get_embedding_model_construct(s)
  \/ \E s \in Sessions : get_embedding_model_return(s)
  \/ \E s \in Sessions : rerank_enter(s)
  \/ \E s \in Sessions : rerank_acquire(s)
  \/ \E s \in Sessions : get_tokenizer_lookup(s)
  \/ \E s \in Sessions : get_tokenizer_load(s)
  \/ \E s \in Sessions : get_model_lookup(s)
  \/ \E s \in Sessions : get_model_load(s)
  \/ \E s \in Sessions : rerank_release(s)
  \/ \E s \in Sessions : thread_return(s)

SpecModelLoading == Init /\ [][NextModelLoading]_vars

\* the handlers and tasks that write transcripts
NextTranscripts ==
  \/ send_response
  \/ \E v \in VideoIds : ingest_url(v)
  \/ \E v \in VideoIds : delete_video(v)
  \/ \E v \in VideoIds : put_transcript(v)
  \/ \E v \in VideoIds : generate_transcript(v)
  \/ \E v \in VideoIds : transcribe_video_task(v)
  \/ \E v \in VideoIds : generate_embeddings_task(v)

SpecTranscripts == Init /\ [][NextTranscripts]_vars

\* RAG requests whose query is the text feedback was stored under
NextSameQuery ==
  \/ send_response
  \/ \E v \in VideoIds : put_transcript(v)
  \/ \E q \in QueryTexts, v \in VideoIds, label \in FeedbackLabels :
       HasRoom(q, v) /\ save_retrieval_feedback(q, v, label)
  \/ \E q \in QueryTexts, v \in VideoIds : delete_retrieval_feedback(q, v)
  \/ \E query \in QueryTexts, k_ann \in KAnnValues, k_final \in KFinalValues :
       rag_request(query, k_ann, k_final, <<>>)

SpecSameQuery == Init /\ [][NextSameQuery]_vars

\* both RAG endpoints on the same requests, over stores with and without
\* feedback
NextBoth ==
  \/ send_response
  \/ \E v \in VideoIds : put_transcript(v)
  \/ \E v \in VideoIds : transcribe_video_task(v)
  \/ \E q \in QueryTexts, v \in VideoIds, label \in FeedbackLabels :
       HasRoom(q, v) /\ save_retrieval_feedback(q, v, label)
  \/ \E q \in QueryTexts, v \in VideoIds : delete_retrieval_feedback(q, v)
  \/ \E query \in RequestQueries, k_ann \in KAnnValues, k_final \in KFinalValues :
       rag_answer_both(query, k_ann, k_final)

SpecBoth == Init /\ [][NextBoth]_vars

\* the feedback-aware endpoint serving each request twice
NextTwice ==
  \/ send_response
  \/ \E v \in VideoIds : put_transcript(v)
  \/ \E q \in QueryTexts, v \in VideoIds, label \in FeedbackLabels :
       HasRoom(q, v) /\ save_retrieval_feedback(q, v, label)
  \/ \E q \in QueryTexts, v \in VideoIds : delete_retrieval_feedback(q, v)
  \/ \E query \in {QA, QBv}, k_ann \in KAnnValues, k_final \in KFinalValues :
       rag_answer_twice(query, k_ann, k_final)

SpecTwice == Init /\ [][NextTwice]_vars

\* RAG requests for one query over stores in which every transcript is
\* embedded or absent
NextOverFetch ==
  \/ send_response
  \/ \E v \in VideoIds : put_transcript(v)
  \/ \E q \in QueryTexts, v \in VideoIds, label \in FeedbackLabels :
       HasRoom(q, v) /\ save_retrieval_feedback(q, v, label)
  \/ \E q \in QueryTexts, v \in VideoIds : delete_retrieval_feedback(q, v)
  \/ \E c \in CollectionIds, q \in QueryTexts : create_collection(c, q, <<>>)
  \/ \E c \in CollectionIds : delete_collection(c)
  \/ \E k_ann \in KAnnValues, k_final \in KFinalValues, similar_collection_ids \in CollectionIdLists :
       rag_request(QA, k_ann, k_final, similar_collection_ids)

SpecOverFetch == Init /\ [][NextOverFetch]_vars

(***************************************************************************)
(* Vocabulary of the properties                                            *)
(***************************************************************************)
\* a RAG response that carries an answer
RagOk == resp.op = "rag_answer" /\ resp.status = 200

SourceIds(sources) == {sources[i].video_id : i \in 1..Len(sources)}

SourcesOfType(sources, type) == {i \in 1..Len(sources) : sources[i].source_type = type}

\* the videos liked in a supplied collection or in a similar query
LikedOf(locals) == DictKeys(locals.liked_from_collections) \cup locals.liked_from_queries

\* the exclusion set of the request: the union of the four sets
ExclusionOf(locals) ==
  DictKeys(locals.liked_from_collections) \cup DictKeys(locals.disliked_from_collections)
  \cup locals.liked_from_queries \cup locals.disliked_from_queries

\* the videos the transparency list is built from
ListedOf(locals) ==
  DictKeys(locals.liked_from_collections) \cup DictKeys(locals.disliked_from_collections)
  \cup locals.disliked_from_queries

\* no filtered fresh hit and no feedback-origin source
EmptyResult(locals) ==
  /\ locals.filtered_hits = <<>>
  /\ locals.sources_from_collections = <<>>
  /\ locals.sources_from_queries = <<>>

ExcludedReasons == {"liked_in_collection", "disliked_in_collection", "bad_feedback"}

HasEntry(excluded_videos, v, reason) ==
  \E i \in 1..Len(excluded_videos) :
    excluded_videos[i].video_id = v /\ excluded_videos[i].reason = reason

(***************************************************************************)
(* C1                                                                      *)
(***************************************************************************)
\* C1 as stated: the returned sources and the exclusion set of the request
\* (the union of the four liked / disliked sets) have no video in common.
C1_SourcesDisjointFromExclusion ==
  RagOk => SourceIds(resp.sources) \cap ExclusionOf(resp.locals) = {}

\* C1, amended: the returned sources have no video in common with the part
\* of the exclusion set that is not liked; a video of the exclusion set is
\* returned only if it is in liked_from_collections or liked_from_queries.
C1_SourcesDisjointFromNotLiked ==
  RagOk => SourceIds(resp.sources) \cap (ExclusionOf(resp.locals) \ LikedOf(resp.locals)) = {}

\* a response with a liked video among the sources, a fresh hit among the
\* sources, and a video that is excluded without being liked
C1_Witness ==
  /\ RagOk
  /\ SourceIds(resp.sources) \cap LikedOf(resp.locals) # {}
  /\ SourcesOfType(resp.sources, "search") # {}
  /\ ExclusionOf(resp.locals) \ LikedOf(resp.locals) # {}

(***************************************************************************)
(* C2                                                                      *)
(***************************************************************************)
\* C2: every returned source of type 'search' has a video_id outside the
\* exclusion set of the request.
C2_SearchSourcesNotExcluded ==
  RagOk => \A i \in SourcesOfType(resp.sources, "search") :
             resp.sources[i].video_id \notin ExclusionOf(resp.locals)

\* the fresh search returned an excluded video, and a fresh hit is returned
C2_Witness ==
  /\ RagOk
  /\ SourceIds(resp.locals.search_hits) \cap ExclusionOf(resp.locals) # {}
  /\ SourcesOfType(resp.sources, "search") # {}

(***************************************************************************)
(* C3                                                                      *)
(***************************************************************************)
\* C3: rag_answer never returns more than k_final sources.
C3_AtMostKFinalSources ==
  RagOk => Len(resp.sources) <= resp.locals.k_final

\* more sources were available than k_final
C3_Witness ==
  /\ RagOk
  /\ Len(resp.locals.sources_from_collections) + Len(resp.locals.sources_from_queries)
       + Len(resp.locals.filtered_hits) > resp.locals.k_final
  /\ resp.locals.sources_from_collections # <<>>
  /\ resp.locals.sources_from_queries # <<>>

(***************************************************************************)
(* C4                                                                      *)
(***************************************************************************)
TypeRank(type) == IF type = "collection" THEN 1 ELSE IF type = "feedback" THEN 2 ELSE 3

PositionIn(hits, v) == CHOOSE i \in 1..Len(hits) : hits[i].video_id = v

\* C4: collection sources precede feedback sources, which precede search
\* sources; the search sources keep the order (and scores) search_videos
\* gave them.
C4_PriorityOrder ==
  RagOk =>
    \A i, j \in 1..Len(resp.sources) :
      i < j =>
        /\ TypeRank(resp.sources[i].source_type) <= TypeRank(resp.sources[j].source_type)
        /\ (resp.sources[i].source_type = "search" /\ resp.sources[j].source_type = "search") =>
             /\ resp.sources[i].video_id \in SourceIds(resp.locals.search_hits)
             /\ resp.sources[j].video_id \in SourceIds(resp.locals.search_hits)
             /\ PositionIn(resp.locals.search_hits, resp.sources[i].video_id)
                  < PositionIn(resp.locals.search_hits, resp.sources[j].video_id)

\* a response with a source of each of the three types
C4_Witness ==
  /\ RagOk
  /\ SourcesOfType(resp.sources, "collection") # {}
  /\ SourcesOfType(resp.sources, "feedback") # {}
  /\ SourcesOfType(resp.sources, "search") # {}

\* a response with two fresh hits whose rerank order differs from the ANN order
C4_WitnessRerank ==
  /\ RagOk
  /\ \E i, j \in SourcesOfType(resp.sources, "search") :
       /\ i < j
       /\ AnnDistance(resp.locals.query, resp.sources[i].video_id)
            > AnnDistance(resp.locals.query, resp.sources[j].video_id)

(***************************************************************************)
(* C5                                                                      *)
(***************************************************************************)
\* C5: no video_id appears more than once in the returned sources.
C5_NoDuplicateSources ==
  RagOk => \A i, j \in 1..Len(resp.sources) :
             resp.sources[i].video_id = resp.sources[j].video_id => i = j

\* one video is liked in a supplied collection, liked in a similar query and
\* an ANN candidate of the fresh search, and it is returned
C5_Witness ==
  /\ RagOk
  /\ \E v \in SourceIds(resp.sources) :
       /\ v \in DictKeys(resp.locals.liked_from_collections)
       /\ v \in resp.locals.liked_from_queries
       /\ v \in SourceIds(resp.locals.search_hits)

(***************************************************************************)
(* C6                                                                      *)
(***************************************************************************)
\* C6 as stated: excluded_videos has an entry, tagged with one of the three
\* reasons, for every video_id of the exclusion set of the request.
C6_EveryExcludedVideoListed ==
  RagOk =>
    \A v \in ExclusionOf(resp.locals) :
      \E reason \in ExcludedReasons : HasEntry(resp.excluded_videos, v, reason)

\* C6, amended: excluded_videos has an entry for every video_id of
\* liked_from_collections (liked_in_collection), of disliked_from_collections
\* (disliked_in_collection) and of disliked_from_queries (bad_feedback unless
\* already listed as disliked_in_collection), and for no other video; a video
\* that is in the exclusion set only through liked_from_queries has no entry.
C6_ListedVideosAreTagged ==
  RagOk =>
    /\ \A v \in DictKeys(resp.locals.liked_from_collections) :
         HasEntry(resp.excluded_videos, v, "liked_in_collection")
    /\ \A v \in DictKeys(resp.locals.disliked_from_collections) :
         HasEntry(resp.excluded_videos, v, "disliked_in_collection")
    /\ \A v \in resp.locals.disliked_from_queries :
         \/ HasEntry(resp.excluded_videos, v, "bad_feedback")
         \/ HasEntry(resp.excluded_videos, v, "disliked_in_collection")
    /\ \A i \in 1..Len(resp.excluded_videos) :
         /\ resp.excluded_videos[i].reason \in ExcludedReasons
         /\ resp.excluded_videos[i].video_id \in ListedOf(resp.locals)

\* a response whose exclusion set holds a video disliked in a similar query
\* and a video that is only liked in a similar query
C6_Witness ==
  /\ RagOk
  /\ resp.locals.disliked_from_queries \ DictKeys(resp.locals.disliked_from_collections) # {}
  /\ resp.locals.liked_from_queries \ ListedOf(resp.locals) # {}

(***************************************************************************)
(* C7                                                                      *)
(***************************************************************************)
\* C7: the generator is never invoked with zero context: with no filtered
\* fresh hit and no feedback-origin source the fixed no-information answer is
\* returned without generation, and whenever the generator is invoked the
\* context holds at least one source.
C7_NoGenerationWithoutContext ==
  (resp.op = "rag_answer" /\ resp.status # 400) =>
    /\ resp.generator_called => resp.context_parts >= 1
    /\ (resp.status = 200 /\ EmptyResult(resp.locals)) =>
         /\ ~resp.generator_called
         /\ resp.answer = "no_information"

\* the fresh search had hits, all were filtered out, nothing was materialized
C7_Witness ==
  /\ RagOk
  /\ EmptyResult(resp.locals)
  /\ resp.locals.search_hits # <<>>
  /\ resp.answer = "no_information"

(***************************************************************************)
(* C8                                                                      *)
(***************************************************************************)
\* C8 as stated: in the empty-result terminal state the response carries an
\* empty sources list and an empty excluded_videos list.
C8_EmptyResultHasEmptyLists ==
  (RagOk /\ EmptyResult(resp.locals)) =>
    /\ resp.sources = <<>>
    /\ resp.excluded_videos = <<>>

\* C8, amended: in the empty-result terminal state the response carries an
\* empty sources list, and its excluded_videos list is the transparency list
\* of the request: it names exactly the videos of liked_from_collections,
\* disliked_from_collections and disliked_from_queries, and is empty only if
\* these three are empty.
C8_EmptyResultKeepsExcludedList ==
  (RagOk /\ EmptyResult(resp.locals)) =>
    /\ resp.sources = <<>>
    /\ SourceIds(resp.excluded_videos) = ListedOf(resp.locals)

\* an empty-result response whose excluded_videos list is not empty
C8_Witness ==
  /\ RagOk
  /\ EmptyResult(resp.locals)
  /\ resp.excluded_videos # <<>>

(***************************************************************************)
(* C9                                                                      *)
(***************************************************************************)
\* v has a 'good' record under a similar query the request got back
LikedInSimilarQuery(locals, v) ==
  \E i \in 1..Len(locals.similar_queries) :
    [query |-> locals.similar_queries[i].query, video_id |-> v, feedback |-> "good"] \in feedback

\* v has a 'good' record under the query of a supplied collection
LikedInSuppliedCollection(locals, v) ==
  \E q \in locals.collection_queries :
    [query |-> q, video_id |-> v, feedback |-> "good"] \in feedback

\* v's Video row and Transcript row exist
RowsExist(v) == v \in videos /\ transcripts[v] \in {"text", "embedded"}

\* C9: a video with a 'good' record under a returned similar query or under
\* the query of a supplied collection, whose Video and Transcript rows exist,
\* is returned as a 'collection' or 'feedback' source unless all k_final
\* places are taken by feedback-origin sources, and never as a 'search' source.
C9_LikedVideoSurfaces ==
  RagOk =>
    \A v \in VideoIds :
      ((LikedInSimilarQuery(resp.locals, v) \/ LikedInSuppliedCollection(resp.locals, v))
        /\ RowsExist(v)) =>
        /\ \/ \E i \in 1..Len(resp.sources) :
                /\ resp.sources[i].video_id = v
                /\ resp.sources[i].source_type \in {"collection", "feedback"}
           \/ /\ Len(resp.sources) = resp.locals.k_final
              /\ SourcesOfType(resp.sources, "search") = {}
        /\ \A i \in SourcesOfType(resp.sources, "search") : resp.sources[i].video_id # v

\* a video liked in a similar query, which is also an ANN candidate, and a
\* video liked in a supplied collection are both returned
C9_Witness ==
  /\ RagOk
  /\ \E v \in VideoIds :
       /\ LikedInSimilarQuery(resp.locals, v)
       /\ transcripts[v] = "embedded"
       /\ v \in SourceIds(resp.sources)
  /\ \E v \in VideoIds :
       /\ LikedInSuppliedCollection(resp.locals, v)
       /\ RowsExist(v)
       /\ v \in SourceIds(resp.sources)

\* a liked video with both rows is left out: k_final feedback-origin sources
\* come before it
C9_WitnessTruncated ==
  /\ RagOk
  /\ \E v \in VideoIds :
       /\ LikedInSimilarQuery(resp.locals, v) \/ LikedInSuppliedCollection(resp.locals, v)
       /\ RowsExist(v)
       /\ v \notin SourceIds(resp.sources)

(***************************************************************************)
(* C10                                                                     *)
(***************************************************************************)
\* C10: a 'collection' or 'feedback' source has score 1.0 and its video has a
\* 'good' record under the collection query given as source_reference,
\* respectively under a returned similar query; a 'search' source has
\* source_reference None.
C10_FeedbackOriginSources ==
  RagOk =>
    \A i \in 1..Len(resp.sources) :
      LET src == resp.sources[i]
      IN  /\ src.source_type = "collection" =>
               /\ src.score.num = src.score.den
               /\ [query |-> src.source_reference, video_id |-> src.video_id,
                   feedback |-> "good"] \in feedback
               /\ src.source_reference \in resp.locals.collection_queries
          /\ src.source_type = "feedback" =>
               /\ src.score.num = src.score.den
               /\ LikedInSimilarQuery(resp.locals, src.video_id)
          /\ src.source_type = "search" => src.source_reference = "None"
          /\ src.source_type \in {"collection", "feedback", "search"}

\* a response with a collection source and a fresh hit whose score is below 1.0
C10_Witness ==
  /\ RagOk
  /\ SourcesOfType(resp.sources, "collection") # {}
  /\ \E i \in SourcesOfType(resp.sources, "search") :
       resp.sources[i].score.num # resp.sources[i].score.den

(***************************************************************************)
(* C11                                                                     *)
(***************************************************************************)
\* C11: the feedback store is a map keyed by (query_text, video_id): a pair
\* never has two records; a save that succeeds leaves the pair with exactly
\* one record, carrying the saved label, and touches no other pair; a delete
\* removes the pair's record, touches no other pair and reports how many rows
\* it removed; on an absent pair it changes nothing and reports success with
\* deleted = 0.
C11_FeedbackStoreIsMap ==
  /\ [](\A f, g \in feedback : (f.query = g.query /\ f.video_id = g.video_id) => f = g)
  /\ [][\A q \in QueryTexts, v \in VideoIds :
          /\ \A label \in FeedbackLabels :
               (save_retrieval_feedback(q, v, label) /\ resp'.status = 201) =>
                 /\ PairRecords(feedback', q, v) = {[query |-> q, video_id |-> v, feedback |-> label]}
                 /\ OtherRecords(feedback', q, v) = OtherRecords(feedback, q, v)
          /\ delete_retrieval_feedback(q, v) =>
               /\ PairRecords(feedback', q, v) = {}
               /\ OtherRecords(feedback', q, v) = OtherRecords(feedback, q, v)
               /\ resp'.status = 200
               /\ resp'.deleted = Cardinality(PairRecords(feedback, q, v))
               /\ PairRecords(feedback, q, v) = {} => (feedback' = feedback /\ resp'.deleted = 0)]_vars

\* a pair saved as 'good' has just been saved as 'bad': the store holds one
\* record, labelled 'bad'
C11_Witness ==
  /\ resp.op = "save_retrieval_feedback"
  /\ resp.status = 201
  /\ resp.previous = "good"
  /\ Cardinality(feedback) = 1
  /\ \A f \in feedback : f.feedback = "bad"

\* a delete found no record for its pair in a store that holds other records
C11_WitnessDeleteAbsent ==
  /\ resp.op = "delete_retrieval_feedback"
  /\ resp.deleted = 0
  /\ feedback # {}

(***************************************************************************)
(* C12                                                                     *)
(***************************************************************************)
\* C12: whenever no save is between its lookup and its commit, a pair for
\* which a save has succeeded has exactly one record: concurrent saves of one
\* pair never leave a duplicate.
C12_ConcurrentSavesLeaveOneRecord ==
  (\A s \in Sessions : sessions[s].pc # "looked_up") =>
    \A s \in Sessions :
      (sessions[s].pc = "done" /\ sessions[s].status = 201) =>
        Cardinality(PairRecords(feedback, sessions[s].query, sessions[s].video_id)) = 1

(***************************************************************************)
(* C13                                                                     *)
(***************************************************************************)
\* C13: a save whose label is not exactly 'good' or 'bad' is answered with
\* HTTP 400 before embed_text is called and before the table is queried, and
\* leaves the feedback store as it was; a save with a valid label is never
\* answered with 400.
C13_InvalidLabelRejected ==
  [][\A q \in QueryTexts, v \in VideoIds :
       /\ \A label \in InvalidLabels :
            save_retrieval_feedback(q, v, label) =>
              /\ resp'.status = 400
              /\ ~resp'.embed_text_called
              /\ ~resp'.db_queried
              /\ feedback' = feedback
       /\ \A label \in FeedbackLabels :
            save_retrieval_feedback(q, v, label) => resp'.status \in {201, 500}]_vars

\* a save was rejected with 400 by a store that holds records
C13_Witness ==
  /\ resp.op = "save_retrieval_feedback"
  /\ resp.status = 400
  /\ feedback # {}

(***************************************************************************)
(* C14                                                                     *)
(***************************************************************************)
\* a similar-queries response that carries a list
SimilarOk == resp.op = "find_similar_queries" /\ resp.status = 200

\* C14: find_similar_queries(q) returns no entry whose query text, trimmed
\* and lowercased, equals q trimmed and lowercased.
C14_NeverReturnsSameQuery ==
  SimilarOk =>
    \A i \in 1..Len(resp.similar_queries) :
      StrLower(Strip(resp.similar_queries[i].query)) # StrLower(Strip(resp.query))

\* the SQL returned a stored text that differs from q only in case and
\* surrounding whitespace, together with other texts that are returned
C14_Witness ==
  /\ SimilarOk
  /\ \E i \in 1..Len(resp.rows) :
       resp.rows[i] # resp.query /\ StrLower(Strip(resp.rows[i])) = StrLower(Strip(resp.query))
  /\ resp.similar_queries # <<>>

\* the SQL returned q itself
C14_WitnessSameText ==
  /\ SimilarOk
  /\ \E i \in 1..Len(resp.rows) : resp.rows[i] = resp.query

(***************************************************************************)
(* C15                                                                     *)
(***************************************************************************)
\* the video ids of the records stored under query_text with the given label
VideoIdsLabelled(query_text, label) ==
  {f.video_id : f \in {g \in feedback : g.query = query_text /\ g.feedback = label}}

\* C15: find_similar_queries returns at most 5 entries, each a distinct
\* stored query text whose similarity to the input is above 0.85, most similar
\* first, with exactly the video ids of that text's 'good' records and of its
\* 'bad' records.
C15_SimilarQueriesContract ==
  SimilarOk =>
    LET sq == resp.similar_queries
    IN  /\ Len(sq) <= 5
        /\ \A i, j \in 1..Len(sq) : sq[i].query = sq[j].query => i = j
        /\ \A i, j \in 1..Len(sq) : i < j => sq[i].similarity >= sq[j].similarity
        /\ \A i \in 1..Len(sq) :
             /\ \E f \in feedback : f.query = sq[i].query
             /\ sq[i].similarity = Similarity(sq[i].query, resp.query)
             /\ sq[i].similarity > 85
             /\ sq[i].good_video_ids = VideoIdsLabelled(sq[i].query, "good")
             /\ sq[i].bad_video_ids = VideoIdsLabelled(sq[i].query, "bad")

\* five entries are returned while a sixth stored text is above the
\* threshold, and a text at exactly 0.85 is stored
C15_Witness ==
  /\ SimilarOk
  /\ Len(resp.similar_queries) = 5
  /\ Cardinality({q \in {f.query : f \in feedback} : Similarity(q, resp.query) > 85}) > 5
  /\ \E f \in feedback : Similarity(f.query, resp.query) = 85

\* an entry with a good and a bad video
C15_WitnessBothLabels ==
  /\ SimilarOk
  /\ \E i \in 1..Len(resp.similar_queries) :
       /\ resp.similar_queries[i].good_video_ids # {}
       /\ resp.similar_queries[i].bad_video_ids # {}

(***************************************************************************)
(* C16                                                                     *)
(***************************************************************************)
\* a similar-collections response that carries a list
SimilarCollectionsOk == resp.op = "find_similar_collections" /\ resp.status = 200

\* the stored collection with this id
StoredCollection(id) == CHOOSE c \in collections : c.id = id

VideoExists(v) == v \in videos

\* C16: find_similar_collections returns at most 10 collections, most similar
\* first; each is a stored collection with a query embedding, a similarity
\* above 0.50 and a query that differs from the input after trimming and
\* lowercasing; its videos are its video_ids, in their order, without the ids
\* that have no Video row.
C16_SimilarCollectionsContract ==
  SimilarCollectionsOk =>
    LET cs == resp.collections
    IN  /\ Len(cs) <= 10
        /\ \A i, j \in 1..Len(cs) : i < j => cs[i].similarity >= cs[j].similarity
        /\ \A i \in 1..Len(cs) :
             /\ \E c \in collections : c.id = cs[i].id
             /\ StoredCollection(cs[i].id).query = cs[i].query
             /\ StoredCollection(cs[i].id).query_embedding # "NULL"
             /\ cs[i].similarity = Similarity(cs[i].query, resp.query)
             /\ cs[i].similarity > 50
             /\ StrLower(Strip(cs[i].query)) # StrLower(Strip(resp.query))
             /\ cs[i].videos = SelectSeq(StoredCollection(cs[i].id).video_ids, VideoExists)

\* ten collections are returned while an eleventh is above the threshold, and
\* one of them lists fewer videos than its video_ids because a video is gone
C16_Witness ==
  /\ SimilarCollectionsOk
  /\ Len(resp.collections) = 10
  /\ Cardinality({c \in collections : c.query_embedding # "NULL"
                                        /\ Similarity(c.query, resp.query) > 50}) > 10
  /\ \E i \in 1..Len(resp.collections) :
       /\ resp.collections[i].videos # <<>>
       /\ resp.collections[i].videos # StoredCollection(resp.collections[i].id).video_ids

\* the store holds a similar collection without embedding, a collection at
\* exactly 0.50 and a collection with the query of the request; none is
\* returned
C16_WitnessLeftOut ==
  /\ SimilarCollectionsOk
  /\ resp.collections # <<>>
  /\ \E c \in collections : c.query_embedding = "NULL" /\ Similarity(c.query, resp.query) > 50
  /\ \E c \in collections : c.query_embedding # "NULL" /\ Similarity(c.query, resp.query) = 50
  /\ \E i \in 1..Len(resp.rows) : StrLower(Strip(resp.rows[i].query)) = StrLower(Strip(resp.query))

(***************************************************************************)
(* C17                                                                     *)
(***************************************************************************)
\* the place of the document v in the list docs
InputPosition(docs, v) == CHOOSE i \in 1..Len(docs) : docs[i] = v

\* C17: when scoring succeeds on a non-empty candidate list, rerank returns
\* the same documents, each with its logit, sorted by rerank_score
\* descending, and documents of equal rerank_score keep their input order.
C17_RerankSortedStable ==
  (resp.op = "rerank" /\ resp.model_ok /\ resp.docs # <<>>) =>
    LET ranked == resp.ranked
    IN  /\ Len(ranked) = Len(resp.docs)
        /\ {ranked[i].video_id : i \in 1..Len(ranked)} = Range(resp.docs)
        /\ \A i \in 1..Len(ranked) :
             ranked[i].rerank_score = resp.scores[InputPosition(resp.docs, ranked[i].video_id)]
        /\ \A i, j \in 1..Len(ranked) :
             i < j =>
               /\ ranked[i].rerank_score >= ranked[j].rerank_score
               /\ ranked[i].rerank_score = ranked[j].rerank_score =>
                    InputPosition(resp.docs, ranked[i].video_id)
                      < InputPosition(resp.docs, ranked[j].video_id)

\* three candidates, two of equal logit, and the best one was not first
C17_Witness ==
  /\ resp.op = "rerank"
  /\ resp.model_ok
  /\ Len(resp.docs) = 3
  /\ \E i, j \in 1..3 : i # j /\ resp.scores[i] = resp.scores[j]
  /\ resp.ranked[1].video_id # resp.docs[1]

(***************************************************************************)
(* C18                                                                     *)
(***************************************************************************)
\* C18: when loading the cross-encoder or scoring raises, rerank returns the
\* documents in the input order, each with rerank_score 0.0.
C18_RerankFallback ==
  (resp.op = "rerank" /\ ~resp.model_ok) =>
    /\ Len(resp.ranked) = Len(resp.docs)
    /\ \A i \in 1..Len(resp.ranked) :
         /\ resp.ranked[i].video_id = resp.docs[i]
         /\ resp.ranked[i].rerank_score = 0

\* scoring raised on three candidates whose logits would have reordered them
C18_Witness ==
  /\ resp.op = "rerank"
  /\ ~resp.model_ok
  /\ Len(resp.docs) = 3
  /\ resp.scores[1] < resp.scores[3]

(***************************************************************************)
(* C19                                                                     *)
(***************************************************************************)
\* the sum of the numerators of the scores of hits
RECURSIVE SumOfScores(_)
SumOfScores(hits) ==
  IF hits = <<>> THEN 0 ELSE Head(hits).score.num + SumOfScores(Tail(hits))

\* C19 as stated: whenever search_videos returns at least one hit, the scores
\* of the returned hits sum to 1.0.
C19_ReturnedScoresSumToOne ==
  (RagOk /\ resp.locals.search_hits # <<>>) =>
    SumOfScores(resp.locals.search_hits) = resp.locals.search_hits[1].score.den

\* C19, amended: the softmax is taken over the whole reranked batch (total
\* candidates) and the returned hits are its first k = 2 * k_final: their
\* scores share one denominator and sum to 1.0 when the whole batch is
\* returned, and to less than 1.0 when the batch is cut.
C19_BatchScoresSumToOne ==
  (RagOk /\ resp.locals.search_hits # <<>>) =>
    LET hits == resp.locals.search_hits
        total == resp.locals.search_total
    IN  /\ Len(hits) = Min(2 * resp.locals.k_final, total)
        /\ \A i \in 1..Len(hits) : hits[i].score.den = hits[1].score.den
        /\ Len(hits) = total => SumOfScores(hits) = hits[1].score.den
        /\ Len(hits) < total => SumOfScores(hits) < hits[1].score.den

\* a batch of three candidates with unequal shares, of which two are returned
C19_Witness ==
  /\ RagOk
  /\ resp.locals.search_total = 3
  /\ Len(resp.locals.search_hits) = 2
  /\ 3 * resp.locals.search_hits[1].score.num # resp.locals.search_hits[1].score.den

\* a batch of three candidates that is returned whole
C19_WitnessWholeBatch ==
  /\ RagOk
  /\ resp.locals.search_total = 3
  /\ Len(resp.locals.search_hits) = 3

(***************************************************************************)
(* C20                                                                     *)
(***************************************************************************)
\* C20: a successful RAG response with sources carries the text the generator
\* produced; when the generator raises, yields no text or has no API key, the
\* request ends with an error.
C20_AnswerIsGenerated ==
  (RagOk /\ resp.sources # <<>>) => resp.answer = "generated"

(***************************************************************************)
(* C21                                                                     *)
(***************************************************************************)
\* the endpoints that only read
ReadOps == {"search_videos", "rag_answer", "find_similar_queries", "find_similar_collections", "get_retrieval_feedback"}

\* C21: a step of search_videos, rag_answer, find_similar_queries,
\* find_similar_collections or get_feedback, whatever its outcome, leaves
\* feedback records, collections, videos and transcripts as they were; the
\* feedback records change only in steps of save_feedback and delete_feedback.
C21_ReadsLeaveStoreUnchanged ==
  [][/\ resp'.op \in ReadOps => UNCHANGED <<videos, transcripts, feedback, collections>>
     /\ feedback' # feedback => resp'.op \in {"save_retrieval_feedback", "delete_retrieval_feedback"}]_vars

\* an answer with sources over a store that holds feedback, a collection and
\* an embedded transcript
C21_Witness ==
  /\ RagOk
  /\ resp.sources # <<>>
  /\ feedback # {}
  /\ collections # {}
  /\ \E v \in videos : transcripts[v] = "embedded"

\* a read endpoint that ends with an error over such a store
C21_WitnessError ==
  /\ resp.op \in ReadOps
  /\ resp.status = 500
  /\ feedback # {}
  /\ collections # {}

\* stored feedback has been read back
C21_WitnessGetFeedback ==
  /\ resp.op = "get_retrieval_feedback"
  /\ resp.status = 200
  /\ resp.feedback # {}

(***************************************************************************)
(* C22                                                                     *)
(***************************************************************************)
\* C22: whatever the interleaving of the first calls of embed_text, the
\* embedding model is constructed at most once, and all callers that encode
\* do so with that one instance.
C22_EmbeddingModelConstructedOnce ==
  /\ modules.embedding_loads <= 1
  /\ \A s, t \in Sessions :
       (sessions[s].pc = "returned" /\ sessions[s].result = "embedding"
        /\ sessions[t].pc = "returned" /\ sessions[t].result = "embedding")
         => sessions[s].model = sessions[t].model

(***************************************************************************)
(* C23                                                                     *)
(***************************************************************************)
\* the threads inside the with statement of rerank
InsideLock == {s \in Sessions : sessions[s].pc \in {"tokenizer_lookup", "tokenizer_load", "model_lookup", "model_load", "release"}}

\* C23: whatever the interleaving of the first calls of rerank, the tokenizer
\* and the cross-encoder model are each loaded at most once; at most one
\* thread is inside the locked section, and a call that ranks uses the
\* loaded objects.
C23_RerankerLoadedOnce ==
  /\ modules.tokenizer_loads <= 1
  /\ modules.model_loads <= 1
  /\ Cardinality(InsideLock) <= 1
  /\ \A s \in Sessions :
       (sessions[s].pc = "returned" /\ sessions[s].result = "ranked")
         => sessions[s].tok = 1 /\ sessions[s].model = 1

\* one first call loads the model while another first call waits for the lock
C23_Witness ==
  \E s, t \in Sessions :
    /\ sessions[s].pc = "model_load"
    /\ sessions[t].pc = "acquire"
    /\ modules.model = 0

\* both calls have ranked with the objects that were loaded once
C23_WitnessReused ==
  /\ \A s \in Sessions : sessions[s].pc = "returned" /\ sessions[s].result = "ranked"
  /\ modules.model_loads = 1
  /\ modules.tokenizer_loads = 1

(***************************************************************************)
(* C24                                                                     *)
(***************************************************************************)
\* C24: every stored collection has a query embedding, and a lookup of
\* similar collections returns every stored collection whose query is more
\* than 0.50 similar to the input and differs from it, as long as the LIMIT
\* does not cut the result.
C24_CollectionsCarryEmbedding ==
  /\ \A c \in collections : c.query_embedding # "NULL"
  /\ (SimilarCollectionsOk /\ ~IsBlank(resp.query) /\ Len(resp.rows) < SimilarCollectionsLimit) =>
       \A c \in collections :
         (Similarity(c.query, resp.query) > SimilarCollectionsThreshold /\ ~SameQuery(c.query, resp.query))
           => \E i \in 1..Len(resp.collections) : resp.collections[i].id = c.id

(***************************************************************************)
(* C25                                                                     *)
(***************************************************************************)
\* C25: in every committed state a transcript that has text has the
\* embedding of that text: no transcript is stored with text alone.
C25_TextHasEmbedding ==
  \A v \in VideoIds : transcripts[v] # "text"

(***************************************************************************)
(* C26                                                                     *)
(***************************************************************************)
\* the videos with a 'bad' record under the query of a supplied collection or
\* under a similar query of the request
DislikedFor(locals) ==
  {f.video_id : f \in {g \in feedback :
     /\ g.feedback = "bad"
     /\ \/ g.query \in locals.collection_queries
        \/ \E i \in 1..Len(locals.similar_queries) : locals.similar_queries[i].query = g.query}}

\* C26: no returned source is a video with a 'bad' record under the query of
\* a supplied similar collection or under a returned similar query, whether
\* or not the video has a 'good' record under another of them.
C26_DislikedNeverReturned ==
  RagOk => SourceIds(resp.sources) \cap DislikedFor(resp.locals) = {}

(***************************************************************************)
(* C27                                                                     *)
(***************************************************************************)
\* C27: while the record (q, v, 'bad') is stored, a RAG request for the same
\* query text q without similar_collection_ids does not return v.
C27_BadFeedbackHidesVideo ==
  RagOk =>
    \A f \in feedback :
      (f.feedback = "bad" /\ f.query = resp.locals.query /\ resp.locals.collection_queries = {})
        => f.video_id \notin SourceIds(resp.sources)

(***************************************************************************)
(* C28                                                                     *)
(***************************************************************************)
BothServed == resp.op = "rag_answer_both"

\* C28: with an empty feedback store and without similar_collection_ids the
\* feedback-aware endpoint and the basic endpoint end with the same status,
\* call the generator in the same cases, and return the same answer and the
\* same sources: same videos, same order, same scores.
C28_SameAsBasicWithoutFeedback ==
  (BothServed /\ feedback = {}) =>
    /\ resp.aware.status = resp.basic.status
    /\ resp.aware.status # 400 => resp.aware.generator_called = resp.basic.generator_called
    /\ resp.aware.status = 200 =>
         /\ resp.aware.answer = resp.basic.answer
         /\ Len(resp.aware.sources) = Len(resp.basic.sources)
         /\ \A i \in 1..Len(resp.aware.sources) :
              /\ resp.aware.sources[i].video_id = resp.basic.sources[i].video_id
              /\ resp.aware.sources[i].score = resp.basic.sources[i].score

\* an answer over an empty feedback store for which the feedback-aware
\* endpoint fetched more hits than it returns, with unequal scores
C28_Witness ==
  /\ BothServed
  /\ feedback = {}
  /\ resp.aware.status = 200
  /\ resp.aware.sources # <<>>
  /\ Len(resp.aware.locals.search_hits) > Len(resp.aware.sources)
  /\ resp.aware.locals.search_hits[1].score # resp.aware.locals.search_hits[2].score

\* both endpoints give the no-information answer
C28_WitnessNoInformation ==
  /\ BothServed
  /\ feedback = {}
  /\ resp.aware.status = 200
  /\ resp.basic.answer = "no_information"

(***************************************************************************)
(* C29                                                                     *)
(***************************************************************************)
\* C29: two executions of rag_answer on the same store and the same request
\* return the same sources in the same order, whatever the iteration order
\* of liked_from_queries in each.
C29_SameSourcesInEveryExecution ==
  (resp.op = "rag_answer_twice" /\ resp.first.status = 200 /\ resp.second.status = 200) =>
    resp.first.sources = resp.second.sources

(***************************************************************************)
(* C30                                                                     *)
(***************************************************************************)
\* the ANN candidates of the request: the k_ann nearest embedded transcripts
AnnCandidates(locals) ==
  Range(Take(AnnOrder({v \in videos : transcripts[v] = "embedded"}, locals.query), locals.search_total))

\* the sources of feedback origin that were materialized
FeedbackOrigin(locals) == Len(locals.sources_from_collections) + Len(locals.sources_from_queries)

\* C30 as stated: if the materialized feedback-origin sources and the ANN
\* candidates outside the exclusion set are together at least k_final, exactly
\* k_final sources are returned.
C30_OverFetchAlwaysCompensates ==
  (RagOk /\ FeedbackOrigin(resp.locals)
              + Cardinality(AnnCandidates(resp.locals) \ resp.locals.exclude_video_ids)
            >= resp.locals.k_final)
    => Len(resp.sources) = resp.locals.k_final

\* C30, amended: the fresh search yields the first k_final * 2 reranked
\* candidates; the number of returned sources is k_final if the materialized
\* feedback-origin sources and those of these hits that are outside the
\* exclusion set are together at least k_final, and is their total otherwise.
C30_OverFetchCompensatesWithinFetched ==
  RagOk =>
    LET fetched == SourceIds(resp.locals.search_hits)
        available == FeedbackOrigin(resp.locals)
                       + Cardinality(fetched \ resp.locals.exclude_video_ids)
    IN  /\ Len(resp.locals.search_hits) = Min(resp.locals.k_final * 2, resp.locals.search_total)
        /\ fetched \subseteq AnnCandidates(resp.locals)
        /\ Len(resp.sources) = Min(resp.locals.k_final, available)

\* the filter removed a fetched hit and the over-fetched hit took its place
C30_Witness ==
  /\ RagOk
  /\ SourceIds(resp.locals.search_hits) \cap resp.locals.exclude_video_ids # {}
  /\ Len(resp.locals.search_hits) > resp.locals.k_final
  /\ Len(resp.sources) = resp.locals.k_final
  /\ resp.sources[Len(resp.sources)].source_type = "search"
  /\ resp.sources[Len(resp.sources)].video_id = resp.locals.search_hits[Len(resp.locals.search_hits)].video_id

\* every fetched hit is excluded while a candidate that was not fetched is not
C30_WitnessNotCompensated ==
  /\ RagOk
  /\ resp.sources = <<>>
  /\ resp.locals.search_hits # <<>>
  /\ AnnCandidates(resp.locals) \ resp.locals.exclude_video_ids # {}

====
